---- MODULE Spec2Model ----
(***************************************************************************)
(* A model of perceptronix: averaged weights (weight.h), weight tables     *)
(* (table.h), binomial and multinomial perceptron classifiers, their       *)
(* freezing constructors and (de)serialization, the greedy decoder and the *)
(* Model wrappers.                                                         *)
(*                                                                         *)
(* Numbers.  AveragedWeight is AveragedWeightTpl<int32_t>; the model uses  *)
(* exact integers, which agree with the 32-bit arithmetic of the code as   *)
(* long as the exact values fit (they do within the bounds below).         *)
(* Weight is WeightTpl<float>: a float is modelled as a reduced fraction   *)
(* <<n, d>> with d > 0, NaN as <<0, 0>> and the infinities as <<1, 0>>     *)
(* and <<-1, 0>>; rounding of float arithmetic is not modelled.            *)
(***************************************************************************)
EXTENDS Integers, Sequences, FiniteSets, TLC

VARIABLES
    aw,       \* weight machine: an AveragedWeightTpl {weight_, summed_weight_, time_}
    wclock,   \* weight machine: the caller's clock (uint64_t t of weight.h:12)
    whist,    \* weight machine: the Update(tau, time) calls made so far
    wavg,     \* weight machine: the value returned by the last GetAverage
    itable,   \* table machine: a table of table.h, <<>> when there is none
    pyclass,  \* Python layer: the class of the instance, "null" without one
    kind,     \* which instantiation of the class templates the Model wraps
    nfeats,   \* constructor argument nfeats
    nlabels,  \* constructor argument nlabels (0 for a binomial model)
    aperceptron_,  \* Model::aperceptron_ (unique_ptr): <<>> is nullptr, <<a>> owns a
    perceptron_,   \* Model::perceptron_ (unique_ptr): <<>> is nullptr, <<p>> owns p
    fault,    \* "none", or how the process ended: "abort" (assert), "crash"
    stream,   \* the contents of the file or stream Write and Read work on
    last      \* the last call made and what it returned

wvars == <<aw, wclock, whist, wavg, itable, pyclass>>

mvars == <<kind, nfeats, nlabels, aperceptron_, perceptron_, fault, stream, last>>

vars == <<aw, wclock, whist, wavg, itable, pyclass,
          kind, nfeats, nlabels, aperceptron_, perceptron_, fault, stream, last>>

(***************************************************************************)
(* Bounds of the model.                                                    *)
(***************************************************************************)
MaxClock == 4

MaxUpdates == 3

Taus == {-2, -1, 1, 2}

MaxTime == 3

MaxMultiTime == 2

MaxOrder == 2

MaxSeqTime == 2

MaxDecoderTime == 3

MaxHistory == 3

MaxInner == 3

MaxWeight == 1

\* how many times the three examples are gone through
MaxEpochs == 8

Null == "null"

(***************************************************************************)
(* float (WeightTpl<float>::WeightType)                                    *)
(***************************************************************************)
Abs(x) == IF x < 0 THEN -x ELSE x

Sign(x) == IF x < 0 THEN -1 ELSE IF x > 0 THEN 1 ELSE 0

RECURSIVE Gcd(_, _)
Gcd(a, b) == IF b = 0 THEN a ELSE Gcd(b, a % b)

NaN == <<0, 0>>

FZero == <<0, 1>>

IsNaN(x) == x = NaN

\* the float nearest to n / d, d > 0
Frac(n, d) == LET g == Gcd(Abs(n), d) IN <<n \div g, d \div g>>

\* static_cast<double>(s) / t, narrowed to float: 0.0 / 0 is NaN, x / 0 is +-inf
FDiv(s, t) == IF t = 0 THEN <<Sign(s), 0>> ELSE Frac(s, t)

\* operator+= of WeightTpl<float>
FAdd(x, y) ==
    IF x[2] = 0 \/ y[2] = 0
    THEN IF x[2] = 0 /\ y[2] = 0
         THEN (IF x = y THEN x ELSE NaN)
         ELSE (IF x[2] = 0 THEN x ELSE y)
    ELSE Frac(x[1] * y[2] + y[1] * x[2], x[2] * y[2])

\* operator< of WeightTpl<float>: false whenever a NaN is compared
FLess(x, y) ==
    IF IsNaN(x) \/ IsNaN(y) THEN FALSE
    ELSE IF x[2] = 0 \/ y[2] = 0
         THEN (IF x[2] = 0 /\ y[2] = 0 THEN x[1] < y[1]
               ELSE IF x[2] = 0 THEN x[1] < 0 ELSE y[1] > 0)
         ELSE x[1] * y[2] < y[1] * x[2]

\* Get() > 0
FPositive(x) == FLess(FZero, x)

\* the conversion of a float to bool, as in `if (weight)`: false for 0 only
FTruth(x) == x # FZero

(***************************************************************************)
(* AveragedWeightTpl<int32_t> (weight.h)                                   *)
(***************************************************************************)
\* AveragedWeightTpl(weight = 0, time = 0)
NewAveragedWeight == [weight_ |-> 0, summed_weight_ |-> 0, time_ |-> 0]

\* void Freshen(uint64_t time)
Freshen(w, time) ==
    LET elapsed == time - w.time_
    IN  [w EXCEPT !.summed_weight_ = w.summed_weight_ + elapsed * w.weight_,
                  !.time_ = time]

\* WeightTpl::Update(tau)
BaseUpdate(w, tau) == [w EXCEPT !.weight_ = w.weight_ + tau]

\* the mutant of WeightUpdate: the weight jumps before the sum is freshened
WeightUpdateJumpFirst(w, tau, time) == Freshen(BaseUpdate(w, tau), time)

\* void Update(WeightType tau, uint64_t time)
WeightUpdate(w, tau, time) == BaseUpdate(Freshen(w, time), tau)

\* float GetAverage(uint64_t time): the weight after the call, and the value
GetAverageWeight(w, time) == Freshen(w, time)

GetAverage(w, time) ==
    LET f == Freshen(w, time) IN FDiv(f.summed_weight_, f.time_)

(***************************************************************************)
(* The five instantiations of the classifier templates                     *)
(* (binomial_perceptron.h:141-151, multinomial_perceptron.h:312-332).      *)
(***************************************************************************)
DenseBinomial == "DenseBinomial"

SparseBinomial == "SparseBinomial"

DenseMultinomial == "DenseMultinomial"

SparseDenseMultinomial == "SparseDenseMultinomial"

SparseMultinomial == "SparseMultinomial"

Kinds == {DenseBinomial, SparseBinomial, DenseMultinomial,
          SparseDenseMultinomial, SparseMultinomial}

IsBinomial(k) == k \in {DenseBinomial, SparseBinomial}

\* Feature is std::string, the table over features an unordered_map
SparseFeatures(k) == k \in {SparseBinomial, SparseDenseMultinomial, SparseMultinomial}

\* Label is std::string, the inner table an unordered_map
SparseLabels(k) == k = SparseMultinomial

\* the reserved label: Feature() of SparseInnerTableTpl::ArgMax
EmptyLabel == ""

\* a table without entries
EmptyTable == [x \in {} |-> 0]

\* table[key] = value, the entry created when it is not there
Put(table, key, value) ==
    IF key \in DOMAIN table THEN [table EXCEPT ![key] = value]
    ELSE table @@ (key :> value)

\* the current value of a weight as a float: Get() of an averaging weight
\* (avg) or of a plain Weight
Val(avg, w) == IF avg THEN <<w.weight_, 1>> ELSE w

(***************************************************************************)
(* table.h                                                                 *)
(***************************************************************************)
\* DenseInnerTableTpl(nfeats): a valarray of nfeats default weights
DenseInnerTable(n, zero) == [i \in 0..(n - 1) |-> zero]

\* DenseOuterTableTpl(nfeats, nlabels): table_(InnerTable(nfeats), nlabels),
\* and valarray(val, n) holds n copies of val
DenseOuterTable(nf, nl, zero) ==
    [i \in 0..(nl - 1) |-> DenseInnerTable(nf, zero)]

\* const Weight &operator[](Feature f) const of an inner table; an index
\* outside a valarray is not in the model's memory and reads as `junk`
InnerGet(table, f, zero, junk, sparse) ==
    IF f \in DOMAIN table THEN table[f] ELSE IF sparse THEN zero ELSE junk

\* const InnerTable &operator[](Feature f) const of an outer table: a missing
\* key of a sparse table gives kDefaultInnerTable, which is empty
OuterGet(table, f) == IF f \in DOMAIN table THEN table[f] ELSE EmptyTable

\* DenseInnerTableTpl::AddWeights: table_ += weights.table_, element by
\* element over the elements of table_
DenseAddWeights(inner, avg, weights, junk) ==
    IF DOMAIN weights = {} THEN inner
    ELSE [j \in DOMAIN inner |->
            FAdd(inner[j], IF j \in DOMAIN weights THEN Val(avg, weights[j]) ELSE junk)]

\* SparseInnerTableTpl::AddWeights: table_[it->first] += it->second
SparseAddWeights(inner, avg, weights) ==
    IF DOMAIN weights = {} THEN inner
    ELSE [l \in DOMAIN inner \cup DOMAIN weights |->
            IF l \notin DOMAIN weights THEN inner[l]
            ELSE FAdd(IF l \in DOMAIN inner THEN inner[l] ELSE FZero,
                      Val(avg, weights[l]))]

\* the mutant of MaxFrom: the last element no earlier one exceeds
RECURSIVE MaxFromLast(_, _, _, _)
MaxFromLast(inner, largest, j, n) ==
    IF j >= n THEN largest
    ELSE MaxFromLast(inner, IF FLess(inner[j], inner[largest]) THEN largest ELSE j, j + 1, n)

\* std::max_element over a valarray: the first element no later one exceeds
RECURSIVE MaxFrom(_, _, _, _)
MaxFrom(inner, largest, j, n) ==
    IF j >= n THEN largest
    ELSE MaxFrom(inner, IF FLess(inner[largest], inner[j]) THEN j ELSE largest, j + 1, n)

\* std::max_element over the entries of an unordered_map, iterated in the
\* order `order` of their keys: the key of the first entry no later one exceeds
RECURSIVE MaxElement(_, _, _, _)
MaxElement(inner, order, largest, j) ==
    IF j > Len(order) THEN order[largest]
    ELSE MaxElement(inner, order,
                    IF FLess(inner[order[largest]], inner[order[j]]) THEN j ELSE largest,
                    j + 1)

\* SparseInnerTableTpl::ArgMax of a table iterated in the order `order`
SparseArgMax(inner, order) ==
    IF order = <<>> THEN EmptyLabel ELSE MaxElement(inner, order, 1, 2)

\* the orders an unordered_map can iterate the keys S in
IterationOrders(S) ==
    {o \in [1..Cardinality(S) -> S] : \A i, j \in 1..Cardinality(S) : o[i] = o[j] => i = j}

\* DenseInnerTableTpl::ArgMax
DenseArgMax(inner) == MaxFrom(inner, 0, 1, Cardinality(DOMAIN inner))

\* SparseInnerTableTpl::ArgMax: the reserved label for an empty table, else
\* the first maximal entry in the iteration order of the unordered_map, which
\* is unspecified: every maximal entry can be the one
SparseArgMaxSet(inner) ==
    IF DOMAIN inner = {} THEN {EmptyLabel}
    ELSE {l \in DOMAIN inner : \A m \in DOMAIN inner : ~FLess(inner[l], inner[m])}

\* ArgMax of the inner table of the classifier kind k: the labels it can return
ArgMaxSet(k, inner) ==
    IF SparseLabels(k) THEN SparseArgMaxSet(inner) ELSE {DenseArgMax(inner)}

(***************************************************************************)
(* binomial_perceptron.h.  A classifier is a record: the averaging form    *)
(* {bias_, table_, c_, time_}, the frozen form {bias_, table_}.  `avg`     *)
(* tells which form p is, i.e. whether its weights are AveragingWeights.   *)
(***************************************************************************)
\* the default-constructed weight of either form
Zero(avg) == IF avg THEN NewAveragedWeight ELSE FZero

\* BinomialPerceptronBaseTpl(nfeats): table_(nfeats); for an unordered_map
\* nfeats is the initial bucket count and the table starts empty
BinomialTable(k, nf, avg) ==
    IF SparseFeatures(k) THEN EmptyTable ELSE DenseInnerTable(nf, Zero(avg))

\* BinomialAveragingPerceptronTpl(nfeats, c)
BinomialAveragingPerceptron(k, nf, c) ==
    [bias_ |-> NewAveragedWeight, table_ |-> BinomialTable(k, nf, TRUE),
     c_ |-> c, time_ |-> 0]

\* the mutant of SumTable: a feature without an entry reads as a weight of 1
RECURSIVE SumTableMissingOne(_, _, _)
SumTableMissingOne(avg, table, fb) ==
    IF fb = <<>> THEN FZero
    ELSE FAdd(IF Head(fb) \in DOMAIN table THEN Val(avg, table[Head(fb)]) ELSE <<1, 1>>,
              SumTableMissingOne(avg, table, Tail(fb)))

\* for (const auto &f : fb) weight += table_[f], through the const accessor
RECURSIVE SumTable(_, _, _)
SumTable(avg, table, fb) ==
    IF fb = <<>> THEN FZero
    ELSE FAdd(Val(avg, InnerGet(table, Head(fb), Zero(avg), Zero(avg), TRUE)),
              SumTable(avg, table, Tail(fb)))

\* Weight Score(const FeatureBundle &fb) const
BinomialScore(avg, p, fb) == FAdd(Val(avg, p.bias_), SumTable(avg, p.table_, fb))

\* Label Predict(const FeatureBundle &fb) const
BinomialPredict(avg, p, fb) == FPositive(BinomialScore(avg, p, fb))

\* for (const auto &f : fb) table_[f].Update(tau, time_), through the mutable
\* accessor, which creates the entry of a sparse table
RECURSIVE UpdateTable(_, _, _, _)
UpdateTable(table, fb, tau, time) ==
    IF fb = <<>> THEN table
    ELSE LET f == Head(fb)
             w == InnerGet(table, f, NewAveragedWeight, NewAveragedWeight, TRUE)
         IN  UpdateTable(Put(table, f, WeightUpdate(w, tau, time)), Tail(fb), tau, time)

\* void Update(const FeatureBundle &fb, Label y, Label yhat)
BinomialUpdate(a, fb, y) ==
    LET tau == IF y THEN 1 ELSE -1
    IN  [a EXCEPT !.bias_ = WeightUpdate(a.bias_, tau, a.time_),
                  !.table_ = UpdateTable(a.table_, fb, tau, a.time_)]

\* the mutant of Tick: time_ = step in place of time_ += step
TickAssigning(a, step) == [a EXCEPT !.time_ = step]

\* void Tick(uint64_t step = 1)
Tick(a, step) == [a EXCEPT !.time_ = a.time_ + step]

\* what a Train call can do: the classifier after the call, the prediction
\* made, the value returned, and whether the process survived
Outcome(a, yhat, ret, flt) == [a |-> a, yhat |-> yhat, ret |-> ret, fault |-> flt]

\* the mutant of BinomialTrain: the clock advances only when an update is made
BinomialTrainTickOnUpdate(a, fb, y) ==
    LET yhat == BinomialPredict(TRUE, a, fb)
    IN  IF y # yhat THEN {Outcome(Tick(BinomialUpdate(a, fb, y), 1), yhat, FALSE, "none")}
        ELSE {Outcome(a, yhat, TRUE, "none")}

\* the mutant of BinomialTrain: the quotient is rounded to the nearest integer
BinomialTrainRounding(a, fb, y) ==
    LET score == BinomialScore(TRUE, a, fb)
        yhat == FPositive(score)
        updated == Outcome(Tick(BinomialUpdate(a, fb, y), 1), yhat, y = yhat, "none")
        kept == Outcome(Tick(a, 1), yhat, y = yhat, "none")
    IN  IF y # yhat THEN {updated}
        ELSE IF a.c_ = 0 \/ Len(fb) = 0 THEN {kept}
        ELSE IF ((2 * Abs(score[1]) + Len(fb)) \div (2 * Len(fb))) < a.c_ THEN {updated}
        ELSE {kept}

\* bool Train(const FeatureBundle &fb, Label y).  std::abs(score.Get()) /
\* fb.size() is an integer division, by zero for an empty bundle: the process
\* is killed, or the quotient is whatever the machine leaves
BinomialTrain(a, fb, y) ==
    LET score == BinomialScore(TRUE, a, fb)
        yhat == FPositive(score)
        updated == Outcome(Tick(BinomialUpdate(a, fb, y), 1), yhat, y = yhat, "none")
        kept == Outcome(Tick(a, 1), yhat, y = yhat, "none")
    IN  IF y # yhat THEN {updated}
        ELSE IF a.c_ = 0 THEN {kept}
        ELSE IF Len(fb) = 0 THEN {Outcome(a, yhat, y = yhat, "crash"), updated, kept}
        ELSE IF (Abs(score[1]) \div Len(fb)) < a.c_ THEN {updated}
        ELSE {kept}

(***************************************************************************)
(* multinomial_perceptron.h.  Averaging form {bias_, table_, nlabels_, c_, *)
(* time_}, frozen form {bias_, table_, nlabels_}; nlabels_ is the field of *)
(* the outer table that InnerSize() returns.                               *)
(***************************************************************************)
\* a value read from outside an array
Garbage == {-1, 0, 1}

\* InnerTable(nlabels)
InnerTable(k, nl, avg) ==
    IF SparseLabels(k) THEN EmptyTable ELSE DenseInnerTable(nl, Zero(avg))

\* Table(nfeats, nlabels)
OuterTable(k, nf, nl, avg) ==
    IF SparseFeatures(k) THEN EmptyTable ELSE DenseOuterTable(nf, nl, Zero(avg))

\* MultinomialAveragingPerceptronTpl(nfeats, nlabels, c)
MultinomialAveragingPerceptron(k, nf, nl, c) ==
    [bias_ |-> InnerTable(k, nl, TRUE), table_ |-> OuterTable(k, nf, nl, TRUE),
     nlabels_ |-> nl, c_ |-> c, time_ |-> 0]

\* the values of an inner table
ValTable(avg, inner) == [l \in DOMAIN inner |-> Val(avg, inner[l])]

\* inner.AddWeights(weights) of the inner table type of kind k
AddWeights(k, inner, avg, weights, junk) ==
    IF SparseLabels(k) THEN SparseAddWeights(inner, avg, weights)
    ELSE DenseAddWeights(inner, avg, weights, junk)

\* for (const auto &f : fb) inner.AddWeights(table_[f])
RECURSIVE AddAll(_, _, _, _, _, _)
AddAll(k, avg, table, inner, fb, junk) ==
    IF fb = <<>> THEN inner
    ELSE AddAll(k, avg, table,
                AddWeights(k, inner, avg, OuterGet(table, Head(fb)), junk),
                Tail(fb), junk)

\* InnerTable Score(const FeatureBundle &fb) const
MultinomialScore(k, avg, p, fb, junk) ==
    AddAll(k, avg, p.table_, ValTable(avg, p.bias_), fb, junk)

\* Score adds valarrays of different sizes (undefined): some table_[f] is
\* shorter than the bias
ScoreOutOfBounds(k, p, fb) ==
    /\ ~SparseFeatures(k)
    /\ \E i \in 1..Len(fb) :
          LET weights == OuterGet(p.table_, fb[i])
          IN  DOMAIN weights # {} /\ ~(DOMAIN p.bias_ \subseteq DOMAIN weights)

\* the values an out-of-bounds read of Score can give
Junk(k, p, fb) ==
    IF ScoreOutOfBounds(k, p, fb) THEN {<<g, 1>> : g \in Garbage} ELSE {FZero}

\* Label Predict(const FeatureBundle &fb) const: the labels it can return
MultinomialPredict(k, avg, p, fb) ==
    UNION {ArgMaxSet(k, MultinomialScore(k, avg, p, fb, junk)) : junk \in Junk(k, p, fb)}

\* ref[l].Update(tau, time_): the mutable accessor of a sparse inner table
\* creates the entry; a write outside a valarray does not land in the table
InnerUpdate(k, inner, l, tau, time) ==
    IF l \in DOMAIN inner THEN [inner EXCEPT ![l] = WeightUpdate(inner[l], tau, time)]
    ELSE IF SparseLabels(k) THEN inner @@ (l :> WeightUpdate(NewAveragedWeight, tau, time))
    ELSE inner

\* auto &ref = table_[f]: the mutable accessor of a sparse outer table
\* emplaces an inner table built from InnerSize()
OuterRef(k, table, f, nl) ==
    IF f \in DOMAIN table THEN table[f] ELSE InnerTable(k, nl, TRUE)

\* the loop of Update over the features of the bundle
RECURSIVE UpdateOuter(_, _, _, _, _, _, _)
UpdateOuter(k, table, fb, y, yhat, time, nl) ==
    IF fb = <<>> THEN table
    ELSE LET f == Head(fb)
             ref == InnerUpdate(k, InnerUpdate(k, OuterRef(k, table, f, nl), y, 1, time),
                                yhat, -1, time)
         IN  UpdateOuter(k, Put(table, f, ref), Tail(fb), y, yhat, time, nl)

\* the mutant of MultinomialUpdate: the -1 of the bias is stamped one unit of
\* time after the +1
MultinomialUpdateLate(k, a, fb, y, yhat) ==
    [a EXCEPT !.bias_ = InnerUpdate(k, InnerUpdate(k, a.bias_, y, 1, a.time_),
                                    yhat, -1, a.time_ + 1),
              !.table_ = UpdateOuter(k, a.table_, fb, y, yhat, a.time_, a.nlabels_)]

\* void Update(const FeatureBundle &fb, Label y, Label yhat)
MultinomialUpdate(k, a, fb, y, yhat) ==
    [a EXCEPT !.bias_ = InnerUpdate(k, InnerUpdate(k, a.bias_, y, 1, a.time_),
                                    yhat, -1, a.time_),
              !.table_ = UpdateOuter(k, a.table_, fb, y, yhat, a.time_, a.nlabels_)]

\* Update writes outside a valarray (undefined): a label is not an index of
\* some table_[f]
UpdateOutOfBounds(k, a, fb, y, yhat) ==
    /\ ~SparseFeatures(k)
    /\ \E i \in 1..Len(fb) : ~({y, yhat} \subseteq DOMAIN OuterGet(a.table_, fb[i]))

\* Train from the score vector on: margin / fb.size() is an integer division,
\* by zero for an empty bundle
MultinomialTrainWith(k, a, fb, y, scores, yhat) ==
    LET updated == Outcome(Tick(MultinomialUpdate(k, a, fb, y, yhat), 1), yhat, y = yhat, "none")
        kept == Outcome(Tick(a, 1), yhat, y = yhat, "none")
        crashed == Outcome(a, yhat, y = yhat, "crash")
        margin == InnerGet(scores, yhat, FZero, FZero, TRUE)[1]
                  - InnerGet(scores, y, FZero, FZero, TRUE)[1]
        wild == IF UpdateOutOfBounds(k, a, fb, y, yhat) THEN {crashed} ELSE {}
    IN  IF y # yhat THEN {updated} \cup wild
        ELSE IF a.c_ = 0 THEN {kept}
        ELSE IF Len(fb) = 0 THEN {crashed, updated, kept}
        ELSE IF (margin \div Len(fb)) < a.c_ THEN {updated} \cup wild
        ELSE {kept}

\* bool Train(const FeatureBundle &fb, Label y): everything the call can do
MultinomialTrain(k, a, fb, y) ==
    UNION {LET scores == MultinomialScore(k, TRUE, a, fb, junk)
           IN  UNION {MultinomialTrainWith(k, a, fb, y, scores, yhat) :
                        yhat \in ArgMaxSet(k, scores)} :
             junk \in Junk(k, a, fb)}
    \cup (IF ScoreOutOfBounds(k, a, fb) THEN {Outcome(a, y, FALSE, "crash")} ELSE {})

(***************************************************************************)
(* Freezing: binomial_perceptron.cc, multinomial_perceptron.cc             *)
(***************************************************************************)
\* the mutant of BaseAsserts: assert(nlabels >= 2)
BaseAssertsTwoLabels(k, nf, nl) == nf > 0 /\ (IsBinomial(k) \/ nl >= 2)

\* the assert of the base constructor, reached through Base(avg->Size()) or
\* Base(avg->OuterSize(), avg->InnerSize()) and through Read
BaseAsserts(k, nf, nl) == nf > 0 /\ (IsBinomial(k) \/ nl > 2)

\* avg->Size(), avg->OuterSize()
Size(table) == Cardinality(DOMAIN table)

\* the averages of an inner table of averaging weights
AverageTable(inner, time) == [l \in DOMAIN inner |-> GetAverage(inner[l], time)]

\* BinomialPerceptronTpl(BinomialAveragingPerceptronTpl *avg): the dense
\* table is copied entry by entry, the sparse one without its zero averages
FreezeBinomial(k, avg) ==
    LET averages == AverageTable(avg.table_, avg.time_)
    IN  [bias_ |-> GetAverage(avg.bias_, avg.time_),
         table_ |-> IF SparseFeatures(k)
                    THEN [f \in {g \in DOMAIN averages : FTruth(averages[g])} |-> averages[f]]
                    ELSE averages]

\* DenseMultinomialPerceptron(avg): the new table is Base(outer_size,
\* inner_size); ref[j] = avg_ref[j].GetAverage(time) for i < outer_size and
\* j < inner_size, where avg_ref[j] can lie outside avg_ref
FreezeDenseMultinomial(avg, junk) ==
    LET outer_size == Size(avg.table_)
        inner_size == avg.nlabels_
        new == DenseOuterTable(outer_size, inner_size, FZero)
    IN  [bias_ |-> [j \in 0..(inner_size - 1) |-> GetAverage(avg.bias_[j], avg.time_)],
         table_ |-> [i \in DOMAIN new |-> [j \in DOMAIN new[i] |->
                        IF i < outer_size /\ j < inner_size
                        THEN (IF j \in DOMAIN avg.table_[i]
                              THEN GetAverage(avg.table_[i][j], avg.time_) ELSE junk)
                        ELSE new[i][j]]],
         nlabels_ |-> inner_size]

\* SparseDenseMultinomialPerceptron(avg)
FreezeSparseDenseMultinomial(avg) ==
    [bias_ |-> [j \in 0..(avg.nlabels_ - 1) |-> GetAverage(avg.bias_[j], avg.time_)],
     table_ |-> [f \in DOMAIN avg.table_ |->
                    [j \in 0..(avg.nlabels_ - 1) |-> GetAverage(avg.table_[f][j], avg.time_)]],
     nlabels_ |-> avg.nlabels_]

\* SparseMultinomialPerceptron(avg): the reserved empty label is skipped
FreezeSparseMultinomial(avg) ==
    LET Kept(inner) == [l \in DOMAIN inner \ {EmptyLabel} |-> GetAverage(inner[l], avg.time_)]
    IN  [bias_ |-> Kept(avg.bias_),
         table_ |-> [f \in DOMAIN avg.table_ |-> Kept(avg.table_[f])],
         nlabels_ |-> avg.nlabels_]

\* the freezing constructor of kind k
Freeze(k, avg, junk) ==
    IF IsBinomial(k) THEN FreezeBinomial(k, avg)
    ELSE IF k = DenseMultinomial THEN FreezeDenseMultinomial(avg, junk)
    ELSE IF k = SparseDenseMultinomial THEN FreezeSparseDenseMultinomial(avg)
    ELSE FreezeSparseMultinomial(avg)

\* the freezing constructor reads outside a valarray (undefined)
FreezeOutOfBounds(k, avg) ==
    /\ k = DenseMultinomial
    /\ \E i \in DOMAIN avg.table_ : ~((0..(avg.nlabels_ - 1)) \subseteq DOMAIN avg.table_[i])

\* the assert the freezing constructor runs into first
FreezeAsserts(k, avg) ==
    BaseAsserts(k, Size(avg.table_), IF IsBinomial(k) THEN 0 ELSE avg.nlabels_)

(***************************************************************************)
(* Serialization: linear_model.proto, binomial_perceptron.cc,              *)
(* multinomial_perceptron.cc.  A message is a record; a repeated field is  *)
(* a sequence, a map field a function.  The stream is <<>> when it holds   *)
(* nothing that parses (no file, a truncated or failed write) and <<pb>>   *)
(* when it holds the well-formed message pb.                               *)
(***************************************************************************)
\* add_table(...) for the n first weights of a dense table, in order
Repeated(inner, n) == [i \in 1..n |-> inner[i - 1]]

\* the message Write builds from the frozen classifier p of kind k
WriteMessage(k, p) ==
    IF k = DenseBinomial
    THEN [type |-> k, bias |-> p.bias_, table |-> Repeated(p.table_, Size(p.table_))]
    ELSE IF k = SparseBinomial
    THEN [type |-> k, bias |-> p.bias_, table |-> p.table_]
    ELSE IF k = DenseMultinomial
    THEN [type |-> k, inner_size |-> p.nlabels_,
          bias |-> Repeated(p.bias_, p.nlabels_),
          table |-> [i \in 1..Size(p.table_) |-> Repeated(p.table_[i - 1], p.nlabels_)]]
    ELSE IF k = SparseDenseMultinomial
    THEN [type |-> k, inner_size |-> p.nlabels_,
          bias |-> Repeated(p.bias_, p.nlabels_),
          table |-> [f \in DOMAIN p.table_ |-> Repeated(p.table_[f], p.nlabels_)]]
    ELSE [type |-> k, inner_size |-> p.nlabels_,
          bias |-> p.bias_,
          table |-> [f \in DOMAIN p.table_ |->
                       [l \in DOMAIN p.table_[f] \ {EmptyLabel} |-> p.table_[f][l]]]]

\* a well-formed message of another schema: one whose required fields are not
\* those of kind k
ForeignMessage(k) ==
    IF IsBinomial(k)
    THEN [type |-> SparseMultinomial, inner_size |-> 3, bias |-> EmptyTable, table |-> EmptyTable]
    ELSE [type |-> SparseBinomial, bias |-> FZero, table |-> EmptyTable]

\* pb.ParseFromIstream(&istrm)
ParseFromIstream(k, strm) == strm # <<>> /\ strm[1].type = k

\* pb.table_size()
TableSize(pb) == Cardinality(DOMAIN pb.table)

\* the asserts of the constructor Read calls
ReadAsserts(k, pb) ==
    BaseAsserts(k, TableSize(pb), IF IsBinomial(k) THEN 0 ELSE pb.inner_size)

\* the classifier Read builds from the parsed message pb
ReadClassifier(k, pb) ==
    IF k = DenseBinomial
    THEN [bias_ |-> pb.bias, table_ |-> [i \in 0..(TableSize(pb) - 1) |-> pb.table[i + 1]]]
    ELSE IF k = SparseBinomial
    THEN [bias_ |-> pb.bias, table_ |-> pb.table]
    ELSE IF k = DenseMultinomial
    THEN LET outer_size == TableSize(pb)
             inner_size == pb.inner_size
             new == DenseOuterTable(outer_size, inner_size, FZero)
         IN  [bias_ |-> [j \in 0..(inner_size - 1) |-> pb.bias[j + 1]],
              table_ |-> [i \in DOMAIN new |-> [j \in DOMAIN new[i] |->
                            IF i < outer_size /\ j < inner_size
                            THEN pb.table[i + 1][j + 1] ELSE new[i][j]]],
              nlabels_ |-> inner_size]
    ELSE IF k = SparseDenseMultinomial
    THEN [bias_ |-> [j \in 0..(pb.inner_size - 1) |-> pb.bias[j + 1]],
          table_ |-> [f \in DOMAIN pb.table |->
                        [j \in 0..(pb.inner_size - 1) |-> pb.table[f][j + 1]]],
          nlabels_ |-> pb.inner_size]
    ELSE [bias_ |-> pb.bias, table_ |-> pb.table, nlabels_ |-> pb.inner_size]

(***************************************************************************)
(* decoder.h                                                               *)
(***************************************************************************)
Min(a, b) == IF a < b THEN a ELSE b

\* sstrm << label: a bool prints as 1 or 0, a size_t in decimal
LabelString(k, l) ==
    IF IsBinomial(k) THEN (IF l THEN "1" ELSE "0")
    ELSE IF SparseLabels(k) THEN l ELSE ToString(l)

\* the contents of sstrm after the i-th feature was streamed into it
RECURSIVE TransitionFeature(_, _, _)
TransitionFeature(k, labels, i) ==
    IF i = 1 THEN "t_i-1=" \o LabelString(k, labels[Len(labels)])
    ELSE TransitionFeature(k, labels, i - 1) \o "^" \o "t_i-" \o ToString(i) \o "="
         \o LabelString(k, labels[Len(labels) - i + 1])

\* the mutant of SparseTransitionFunctor: the order does not bound the result
SparseTransitionFunctorUnbounded(k, order, labels) ==
    IF labels = <<>> \/ order = 0 THEN <<>>
    ELSE [i \in 1..Len(labels) |-> TransitionFeature(k, labels, i)]

\* SparseTransitionFunctor(order)(labels, &tvector)
SparseTransitionFunctor(k, order, labels) ==
    IF labels = <<>> \/ order = 0 THEN <<>>
    ELSE [i \in 1..Min(order, Len(labels)) |-> TransitionFeature(k, labels, i)]

\* P::Predict of either family: the labels it can return
Predict(k, avg, p, fb) ==
    IF IsBinomial(k) THEN {BinomialPredict(avg, p, fb)}
    ELSE MultinomialPredict(k, avg, p, fb)

\* the loop of Decoder::Predict from position i on: every vector of labels it
\* can end with
RECURSIVE PredictLoop(_, _, _, _, _, _, _)
PredictLoop(k, avg, p, order, evectors, i, yhats) ==
    IF i > Len(evectors) THEN {yhats}
    ELSE LET cvector == SparseTransitionFunctor(k, order, yhats) \o evectors[i]
         IN  UNION {PredictLoop(k, avg, p, order, evectors, i + 1, Append(yhats, l)) :
                      l \in Predict(k, avg, p, cvector)}

\* the mutant of DecoderPredict: the output vector is not cleared
DecoderPredictNoClear(k, avg, p, order, evectors, yhats) ==
    PredictLoop(k, avg, p, order, evectors, 1, yhats)

\* void Predict(const Vectors &evectors, Labels *yhats) const
DecoderPredict(k, avg, p, order, evectors, yhats) ==
    PredictLoop(k, avg, p, order, evectors, 1, <<>>)

\* the cvectors Decoder::Predict fills next to the labels yhats: the transition
\* features of the labels before position i, then emission vector i
Cvectors(k, order, evectors, yhats) ==
    [i \in 1..Len(evectors) |->
        SparseTransitionFunctor(k, order, SubSeq(yhats, 1, i - 1)) \o evectors[i]]

\* perceptron_->Update(cvector, y, yhat) of either family
ClassifierUpdate(k, a, fb, y, yhat) ==
    IF IsBinomial(k) THEN BinomialUpdate(a, fb, y) ELSE MultinomialUpdate(k, a, fb, y, yhat)

\* the loop of AveragingDecoder::Train from position i on: the classifier and
\* the count it ends with
RECURSIVE TrainLoop(_, _, _, _, _, _, _)
TrainLoop(k, a, cvectors, ys, yhats, i, correct) ==
    IF i > Len(ys) THEN [a |-> a, correct |-> correct]
    ELSE IF ys[i] = yhats[i]
    THEN TrainLoop(k, a, cvectors, ys, yhats, i + 1, correct + 1)
    ELSE TrainLoop(k, ClassifierUpdate(k, a, cvectors[i], ys[i], yhats[i]),
                   cvectors, ys, yhats, i + 1, correct)

\* the mutant of DecoderTrain: the clock advances after every position
RECURSIVE TrainLoopTicking(_, _, _, _, _, _, _)
TrainLoopTicking(k, a, cvectors, ys, yhats, i, correct) ==
    IF i > Len(ys) THEN [a |-> a, correct |-> correct]
    ELSE IF ys[i] = yhats[i]
    THEN TrainLoopTicking(k, Tick(a, 1), cvectors, ys, yhats, i + 1, correct + 1)
    ELSE TrainLoopTicking(k, Tick(ClassifierUpdate(k, a, cvectors[i], ys[i], yhats[i]), 1),
                          cvectors, ys, yhats, i + 1, correct)

DecoderTrainTickEach(k, a, order, evectors, ys) ==
    {LET r == TrainLoopTicking(k, a, Cvectors(k, order, evectors, yhats), ys, yhats, 1, 0)
     IN  [a |-> r.a, yhats |-> yhats, ret |-> r.correct] :
       yhats \in PredictLoop(k, TRUE, a, order, evectors, 1, <<>>)}

\* the mutant of DecoderTrain: the transition features are made of the true
\* labels of the earlier positions
RECURSIVE PredictLoopForced(_, _, _, _, _, _, _)
PredictLoopForced(k, p, order, evectors, ys, i, yhats) ==
    IF i > Len(evectors) THEN {yhats}
    ELSE LET cvector == SparseTransitionFunctor(k, order, SubSeq(ys, 1, i - 1)) \o evectors[i]
         IN  UNION {PredictLoopForced(k, p, order, evectors, ys, i + 1, Append(yhats, l)) :
                      l \in Predict(k, TRUE, p, cvector)}

DecoderTrainForced(k, a, order, evectors, ys) ==
    {LET r == TrainLoop(k, a, Cvectors(k, order, evectors, ys), ys, yhats, 1, 0)
     IN  [a |-> Tick(r.a, Len(ys)), yhats |-> yhats, ret |-> r.correct] :
       yhats \in PredictLoopForced(k, a, order, evectors, ys, 1, <<>>)}

\* size_t Train(const Vectors &evectors, const Labels &ys), past its assert:
\* everything the call can do
DecoderTrain(k, a, order, evectors, ys) ==
    {LET r == TrainLoop(k, a, Cvectors(k, order, evectors, yhats), ys, yhats, 1, 0)
     IN  [a |-> Tick(r.a, Len(ys)), yhats |-> yhats, ret |-> r.correct] :
       yhats \in PredictLoop(k, TRUE, a, order, evectors, 1, <<>>)}

(***************************************************************************)
(* The weight machine: one averaged weight driven as weight.h:12-17        *)
(* describes, Update at the current time, the clock advancing in between.  *)
(***************************************************************************)
WInit ==
    /\ aw = NewAveragedWeight
    /\ wclock = 0
    /\ whist = <<>>
    /\ wavg = Null
    /\ itable = <<>>
    /\ pyclass = Null
    /\ kind = DenseBinomial
    /\ nfeats = 1
    /\ nlabels = 0
    /\ aperceptron_ = <<>>
    /\ perceptron_ = <<>>
    /\ fault = "none"
    /\ stream = <<>>
    /\ last = [op |-> "none"]

WUpdate ==
    /\ Len(whist) < MaxUpdates
    /\ \E tau \in Taus :
          /\ aw' = WeightUpdate(aw, tau, wclock)
          /\ whist' = Append(whist, <<tau, wclock>>)
    /\ wavg' = Null
    /\ UNCHANGED <<wclock, itable, pyclass, mvars>>

WTick ==
    /\ wclock < MaxClock
    /\ wclock' = wclock + 1
    /\ wavg' = Null
    /\ UNCHANGED <<aw, whist, itable, pyclass, mvars>>

WGetAverage ==
    /\ aw' = GetAverageWeight(aw, wclock)
    /\ wavg' = GetAverage(aw, wclock)
    /\ UNCHANGED <<wclock, whist, itable, pyclass, mvars>>

WNext == WUpdate \/ WTick \/ WGetAverage

SpecWeight == WInit /\ [][WNext]_vars

(***************************************************************************)
(* C1.  The naive simulation: one unit of time after the other, the        *)
(* running sum grows by the weight's value in that unit; an update made at *)
(* time t is in effect in the units t, t + 1, ...                          *)
(***************************************************************************)
RECURSIVE NaiveValue(_, _, _)
NaiveValue(hist, i, unit) ==
    IF i > Len(hist) THEN 0
    ELSE (IF hist[i][2] <= unit THEN hist[i][1] ELSE 0)
         + NaiveValue(hist, i + 1, unit)

RECURSIVE NaiveSum(_, _)
NaiveSum(hist, T) ==
    IF T = 0 THEN 0 ELSE NaiveSum(hist, T - 1) + NaiveValue(hist, 1, T - 1)

\* C1: after GetAverage(T), T at or after every update, the accumulated sum
\* of the lazily averaged weight is the sum of the naive per-unit simulation
\* of the same updates, and the value returned is that sum divided by T.
C1_LazyEqualsNaive ==
    wavg # Null =>
        /\ aw.summed_weight_ = NaiveSum(whist, wclock)
        /\ aw.time_ = wclock
        /\ wclock > 0 =>
              /\ wavg[2] > 0
              /\ wavg[1] * wclock = NaiveSum(whist, wclock) * wavg[2]

\* C1 witness: an average taken after two updates at different times, the
\* second one later than the first and before the query
C1_Witness ==
    /\ wavg # Null
    /\ Len(whist) >= 2
    /\ whist[1][2] < whist[2][2]
    /\ whist[2][2] < wclock
    /\ aw.summed_weight_ # 0

(***************************************************************************)
(* The Model machine: one Model (binomial_model.h, multinomial_model.h)    *)
(* and the calls a client makes on it.                                     *)
(***************************************************************************)
\* the second sparse feature is a transition feature, as the decoder makes
SparseFeatureSet(k) == {"a", "t_i-1=" \o (IF SparseLabels(k) THEN "x" ELSE "1")}

\* the features of the examples
Features(k) == IF SparseFeatures(k) THEN SparseFeatureSet(k) ELSE {0, 1}

\* the first feature of the examples
FirstFeature(k) == IF SparseFeatures(k) THEN "a" ELSE 0

\* the feature bundles of the examples: empty, one feature, the first
\* feature and another one, and for the binomial models the first feature
\* twice and the other feature alone
Bundles(k) ==
    {<<>>, <<FirstFeature(k)>>} \cup {<<FirstFeature(k), f>> : f \in Features(k) \ {FirstFeature(k)}}
    \cup (IF IsBinomial(k)
          THEN {<<f>> : f \in Features(k)} \cup {<<FirstFeature(k), FirstFeature(k)>>}
          ELSE {})

\* the labels of the examples
Labels(k) ==
    IF IsBinomial(k) THEN BOOLEAN
    ELSE IF SparseLabels(k) THEN {"x", "y", "z"} ELSE 0..2

\* the constructor arguments <<nfeats, nlabels>> of the models
Dims(k) ==
    IF IsBinomial(k) THEN {<<2, 0>>}
    ELSE IF k = DenseMultinomial THEN {<<2, 3>>, <<3, 3>>}
    ELSE {<<2, 3>>}

\* the margin constants c of the classifiers
Margins == {0, 1}

\* how many Train calls a model gets
TimeBound(k) == IF IsBinomial(k) THEN MaxTime ELSE MaxMultiTime

\* the averaging classifier the Model constructor makes
AveragingPerceptron(k, nf, nl, c) ==
    IF IsBinomial(k) THEN BinomialAveragingPerceptron(k, nf, c)
    ELSE MultinomialAveragingPerceptron(k, nf, nl, c)

\* bool Averaged() const
Averaged == aperceptron_ = <<>>

\* the weight machine stands still and there is no table under test
WIdle ==
    /\ aw = NewAveragedWeight /\ wclock = 0 /\ whist = <<>> /\ wavg = Null
    /\ itable = <<>> /\ pyclass = Null

\* the larger margin constants
LargeMargins == {1, 2}

\* Model(nfeats[, nlabels][, c]): aperceptron_(new AveragingPerceptron(...)),
\* with a margin constant of `margins`
ModelInit(margins) ==
    /\ WIdle
    /\ kind \in Kinds
    /\ \E d \in Dims(kind) : nfeats = d[1] /\ nlabels = d[2]
    /\ \E c \in margins : aperceptron_ = <<AveragingPerceptron(kind, nfeats, nlabels, c)>>
    /\ perceptron_ = <<>>
    /\ fault = "none"
    /\ stream = <<>>
    /\ last = [op |-> "new"]

MInit == ModelInit(Margins)

\* AveragingPerceptron::Train of either family: everything the call can do
TrainOutcomes(k, a, fb, y) ==
    IF IsBinomial(k) THEN BinomialTrain(a, fb, y) ELSE MultinomialTrain(k, a, fb, y)

\* bool Train(const FeatureBundle &fb, Label y), on a Model that has been
\* trained fewer than `bound` times
TrainWithin(bound) ==
    /\ fault = "none"
    /\ \E fb \in Bundles(kind), y \in Labels(kind) :
          IF Averaged
          THEN /\ fault' = "abort"
               /\ last' = [op |-> "Train"]
               /\ UNCHANGED aperceptron_
          ELSE /\ aperceptron_[1].time_ < bound
               /\ \E o \in TrainOutcomes(kind, aperceptron_[1], fb, y) :
                     /\ aperceptron_' = <<o.a>>
                     /\ fault' = o.fault
                     /\ last' = [op |-> "Train", fb |-> fb, y |-> y,
                                 yhat |-> o.yhat, ret |-> o.ret]
    /\ UNCHANGED <<kind, nfeats, nlabels, perceptron_, stream, wvars>>

Train == TrainWithin(TimeBound(kind))

\* the mutant of TableAfterGet: the accessor that creates the entry
TableAfterRef(k, avg, table, f, nl) ==
    IF ~SparseFeatures(k) \/ f \in DOMAIN table THEN table
    ELSE Put(table, f, IF IsBinomial(k) THEN Zero(avg) ELSE InnerTable(k, nl, avg))

\* the table after table_[f] in a const member function: the const
\* operator[] is the one called, find(f) and nothing else
TableAfterGet(k, avg, table, f, nl) == table

\* the table of a classifier after Score(fb) has looked up every feature
RECURSIVE TableAfterScore(_, _, _, _, _)
TableAfterScore(k, avg, table, fb, nl) ==
    IF fb = <<>> THEN table
    ELSE TableAfterScore(k, avg, TableAfterGet(k, avg, table, Head(fb), nl), Tail(fb), nl)

\* the classifier after Predict(fb): Score copies the bias, looks up the
\* features and adds to the copy; ArgMax works on the copy
AfterPredict(k, avg, p, fb) ==
    [p EXCEPT !.table_ = TableAfterScore(k, avg, p.table_, fb, nlabels)]

\* Label Predict(const FeatureBundle &fb) const; perceptron_ can be null
\* after Read, and Score can read outside a valarray
ModelPredict ==
    /\ fault = "none"
    /\ \E fb \in Bundles(kind) :
          LET avg == ~Averaged
              held == IF avg THEN aperceptron_ ELSE perceptron_
          IN  \/ /\ held # <<>>
                 /\ \E l \in Predict(kind, avg, held[1], fb) :
                       last' = [op |-> "Predict", fb |-> fb, ret |-> l]
                 /\ fault' = "none"
                 /\ IF avg
                    THEN /\ aperceptron_' = <<AfterPredict(kind, avg, held[1], fb)>>
                         /\ UNCHANGED perceptron_
                    ELSE /\ perceptron_' = <<AfterPredict(kind, avg, held[1], fb)>>
                         /\ UNCHANGED aperceptron_
              \/ /\ IF held = <<>> THEN TRUE ELSE ScoreOutOfBounds(kind, held[1], fb)
                 /\ last' = [op |-> "Predict"]
                 /\ fault' = "crash"
                 /\ UNCHANGED <<aperceptron_, perceptron_>>
    /\ UNCHANGED <<kind, nfeats, nlabels, stream, wvars>>

\* the mutant of Average: aperceptron_ is not reset
AverageNoReset ==
    /\ fault = "none"
    /\ ~Averaged
    /\ FreezeAsserts(kind, aperceptron_[1])
    /\ perceptron_' = <<Freeze(kind, aperceptron_[1], FZero)>>
    /\ last' = [op |-> "Average"]
    /\ UNCHANGED <<kind, nfeats, nlabels, aperceptron_, fault, stream, wvars>>

\* void Average()
Average ==
    /\ fault = "none"
    /\ last' = [op |-> "Average"]
    /\ IF Averaged \/ ~FreezeAsserts(kind, aperceptron_[1])
       THEN fault' = "abort" /\ UNCHANGED <<aperceptron_, perceptron_>>
       ELSE \/ /\ \E junk \in (IF FreezeOutOfBounds(kind, aperceptron_[1])
                               THEN {<<g, 1>> : g \in Garbage} ELSE {FZero}) :
                     perceptron_' = <<Freeze(kind, aperceptron_[1], junk)>>
               /\ aperceptron_' = <<>>
               /\ fault' = "none"
            \/ /\ FreezeOutOfBounds(kind, aperceptron_[1])
               /\ fault' = "crash"
               /\ UNCHANGED <<aperceptron_, perceptron_>>
    /\ UNCHANGED <<kind, nfeats, nlabels, stream, wvars>>

\* bool Write(std::ostream &ostrm, const std::string &metadata) const;
\* good: whether the stream takes the bytes
Write ==
    /\ fault = "none"
    /\ IF ~Averaged
       THEN /\ fault' = "abort"
            /\ last' = [op |-> "Write"]
            /\ UNCHANGED stream
       ELSE IF perceptron_ = <<>>
       THEN /\ fault' = "crash"
            /\ last' = [op |-> "Write"]
            /\ UNCHANGED stream
       ELSE \E good \in BOOLEAN :
               /\ stream' = IF good THEN <<WriteMessage(kind, perceptron_[1])>> ELSE <<>>
               /\ last' = [op |-> "Write", ret |-> good]
               /\ fault' = "none"
    /\ UNCHANGED <<kind, nfeats, nlabels, aperceptron_, perceptron_, wvars>>

\* the streams a client can hand to Read: the one Write wrote to, one that
\* holds nothing that parses, one that holds a message of another schema
Streams == {stream, <<>>, <<ForeignMessage(kind)>>}

\* static Model *Read(std::istream &istrm, std::string *metadata): the Model
\* returned takes the place of the one the client held; `classifier` is what
\* Perceptron::Read returned, `ret` what Model::Read returned
Read ==
    /\ fault = "none"
    /\ \E istrm \in Streams :
          IF ~ParseFromIstream(kind, istrm)
          THEN /\ perceptron_' = <<>>
               /\ aperceptron_' = <<>>
               /\ fault' = "none"
               /\ last' = [op |-> "Read", istrm |-> istrm,
                           classifier |-> "nullptr", ret |-> "Model"]
          ELSE IF ~ReadAsserts(kind, istrm[1])
          THEN /\ fault' = "abort"
               /\ last' = [op |-> "Read", istrm |-> istrm]
               /\ UNCHANGED <<aperceptron_, perceptron_>>
          ELSE /\ perceptron_' = <<ReadClassifier(kind, istrm[1])>>
               /\ aperceptron_' = <<>>
               /\ fault' = "none"
               /\ last' = [op |-> "Read", istrm |-> istrm,
                           classifier |-> "Perceptron", ret |-> "Model"]
    /\ UNCHANGED <<kind, nfeats, nlabels, stream, wvars>>

\* the sequences of emission vectors handed to the decoder: none, and one,
\* two and three tokens
Evectors ==
    {<<>>, << <<"a">> >>, << <<"a">>, <<>> >>, << <<"a">>, <<"a">>, <<>> >>}

\* SequentialModel::Predict(evectors, &yhats): a Decoder over the classifier
\* the Model holds; the caller hands in the vector the previous decoder call
\* filled, or a fresh one; `dirty` tells that the vector was not empty on entry
SequentialPredict ==
    /\ fault = "none"
    /\ \E order \in 0..MaxOrder, evectors \in Evectors :
          LET avg == ~Averaged
              held == IF avg THEN aperceptron_ ELSE perceptron_
              prev == IF last.op = "DecoderPredict" THEN last.yhats ELSE <<>>
          IN  IF held = <<>> /\ evectors # <<>>
              THEN /\ fault' = "crash"
                   /\ last' = [op |-> "DecoderPredict"]
              ELSE /\ \E yhats \in (IF evectors = <<>> THEN {<<>>}
                                    ELSE DecoderPredict(kind, avg, held[1], order, evectors, prev)) :
                         last' = [op |-> "DecoderPredict", order |-> order,
                                  evectors |-> evectors, dirty |-> prev # <<>>, yhats |-> yhats]
                   /\ fault' = "none"
    /\ UNCHANGED <<kind, nfeats, nlabels, aperceptron_, perceptron_, stream, wvars>>

\* the label vectors of n tokens
RECURSIVE LabelVectors(_, _)
LabelVectors(k, n) ==
    IF n = 0 THEN {<<>>}
    ELSE {Append(ys, y) : ys \in LabelVectors(k, n - 1), y \in Labels(k)}

\* SequentialModel::Train(evectors, ys): assert(!Averaged()), then
\* adecoder_->Train, whose assert wants as many labels as tokens
SequentialTrain ==
    /\ fault = "none"
    /\ \E order \in 0..MaxOrder, evectors \in Evectors :
       \E ys \in LabelVectors(kind, Len(evectors)) \cup LabelVectors(kind, 1) :
          IF Averaged \/ Len(ys) # Len(evectors)
          THEN /\ fault' = "abort"
               /\ last' = [op |-> "DecoderTrain"]
               /\ UNCHANGED aperceptron_
          ELSE /\ aperceptron_[1].time_ + Len(evectors) <= MaxDecoderTime
               /\ \E o \in DecoderTrain(kind, aperceptron_[1], order, evectors, ys) :
                     /\ aperceptron_' = <<o.a>>
                     /\ last' = [op |-> "DecoderTrain", order |-> order,
                                 evectors |-> evectors, ys |-> ys,
                                 yhats |-> o.yhats, ret |-> o.ret]
               /\ fault' = "none"
    /\ UNCHANGED <<kind, nfeats, nlabels, perceptron_, stream, wvars>>

Next == Train \/ ModelPredict \/ Average \/ Write \/ Read

\* Train on a Model the decoder is then run on
TrainFew == TrainWithin(MaxSeqTime)

SeqNext == TrainFew \/ Average \/ SequentialPredict

Spec == MInit /\ [][Next]_vars

\* the sequential models are the sparse ones (decoder.h:181-189)
SeqInit == MInit /\ SparseFeatures(kind)

SpecDecoder == SeqInit /\ [][SeqNext]_vars

\* The transition functor machine: a functor of some order, a label history
\* that grows, and the vector the functor fills.
FunctorInit ==
    /\ WIdle
    /\ kind \in {k \in Kinds : SparseFeatures(k)}
    /\ nfeats = 1
    /\ nlabels = 0
    /\ aperceptron_ = <<>>
    /\ perceptron_ = <<>>
    /\ fault = "none"
    /\ stream = <<>>
    /\ \E order \in 0..MaxOrder :
          last = [op |-> "SparseTransitionFunctor", order |-> order,
                  labels |-> <<>>, tvector |-> <<>>]

\* yhats->emplace_back(label): the history grows by one label
EmplaceLabel ==
    /\ Len(last.labels) < MaxHistory
    /\ \E l \in Labels(kind) :
          last' = [last EXCEPT !.op = "emplace_back", !.labels = Append(last.labels, l)]
    /\ UNCHANGED <<kind, nfeats, nlabels, aperceptron_, perceptron_, fault, stream, wvars>>

\* tfunctor_(labels, &tvector)
ApplyFunctor ==
    /\ last' = [last EXCEPT !.op = "operator()",
                            !.tvector = SparseTransitionFunctor(kind, last.order, last.labels)]
    /\ UNCHANGED <<kind, nfeats, nlabels, aperceptron_, perceptron_, fault, stream, wvars>>

FunctorNext == EmplaceLabel \/ ApplyFunctor

SpecFunctor == FunctorInit /\ [][FunctorNext]_vars

\* The table machine: one table of table.h holding averaging weights, as the
\* averaging classifiers hold them, and the calls made on it.  itable.k is the
\* classifier kind whose table it is: an inner table (of a binomial kind) or
\* an outer table (of a sparse multinomial kind); itable.order is the
\* iteration order of a sparse inner table.
TableKinds == {DenseBinomial, SparseBinomial, SparseDenseMultinomial, SparseMultinomial}

\* the keys used with the table: indices of a dense inner table, strings
TableKeys(k) ==
    IF k = DenseBinomial THEN 0..(MaxInner - 1)
    ELSE IF k = SparseBinomial THEN {"x", "y", "z"}
    ELSE {"a", "b"}

TableInit ==
    /\ aw = NewAveragedWeight /\ wclock = 0 /\ whist = <<>> /\ wavg = Null
    /\ pyclass = Null
    /\ kind = DenseBinomial
    /\ nfeats = 1
    /\ nlabels = 0
    /\ aperceptron_ = <<>>
    /\ perceptron_ = <<>>
    /\ fault = "none"
    /\ stream = <<>>
    /\ last = [op |-> "new"]
    /\ \E k \in TableKinds :
          itable = [k |-> k, order |-> <<>>, nlabels_ |-> IF IsBinomial(k) THEN 0 ELSE 3,
                    table_ |-> IF IsBinomial(k) THEN BinomialTable(k, MaxInner, TRUE)
                               ELSE OuterTable(k, 2, 3, TRUE)]

\* the iteration orders after a call that may have inserted a key: unchanged
\* when no key was inserted, any order of the keys otherwise (a rehash)
OrdersAfter(old, new) ==
    IF itable.k # SparseBinomial THEN {<<>>}
    ELSE IF DOMAIN new = DOMAIN old THEN {itable.order}
    ELSE IterationOrders(DOMAIN new)

TableFrame ==
    UNCHANGED <<aw, wclock, whist, wavg, pyclass,
                kind, nfeats, nlabels, aperceptron_, perceptron_, fault, stream>>

\* table[key].Update(tau, 0) on an inner table; auto &ref = table[f];
\* ref[y].Update(+1, 0); ref[yhat].Update(-1, 0) on an outer table
TableUpdate ==
    /\ \E key \in TableKeys(itable.k), tau \in {-1, 1}, y \in Labels(itable.k),
          yhat \in Labels(itable.k) :
          LET new == IF IsBinomial(itable.k)
                     THEN UpdateTable(itable.table_, <<key>>, tau, 0)
                     ELSE UpdateOuter(itable.k, itable.table_, <<key>>, y, yhat, 0,
                                      itable.nlabels_)
          IN  /\ IsBinomial(itable.k) => (y = TRUE /\ yhat = TRUE)
              /\ IF IsBinomial(itable.k) THEN Abs(new[key].weight_) <= MaxWeight
                 ELSE \A l \in DOMAIN new[key] : Abs(new[key][l].weight_) <= MaxWeight
              /\ \E o \in OrdersAfter(itable.table_, new) :
                    itable' = [itable EXCEPT !.table_ = new, !.order = o]
              /\ last' = [op |-> "Update", key |-> key]
    /\ TableFrame

\* table.ArgMax(), twice in a row, on an inner table
TableArgMax ==
    /\ IsBinomial(itable.k)
    /\ LET inner == ValTable(TRUE, itable.table_)
           ret == IF SparseFeatures(itable.k) THEN SparseArgMax(inner, itable.order)
                  ELSE DenseArgMax(inner)
       IN  last' = [op |-> "ArgMax", ret |-> ret, again |-> ret]
    /\ UNCHANGED itable
    /\ TableFrame

\* the mutant of TableGet: the read-only accessor inserts the key
TableGetInserting ==
    /\ \E key \in TableKeys(itable.k) :
          LET new == IF IsBinomial(itable.k)
                     THEN Put(itable.table_, key,
                              InnerGet(itable.table_, key, NewAveragedWeight, NewAveragedWeight, TRUE))
                     ELSE Put(itable.table_, key,
                              OuterRef(itable.k, itable.table_, key, itable.nlabels_))
          IN  /\ last' = [op |-> "const []", key |-> key, ret |-> new[key]]
              /\ \E o \in OrdersAfter(itable.table_, new) :
                    itable' = [itable EXCEPT !.table_ = new, !.order = o]
    /\ TableFrame

\* const Weight &operator[](Feature f) const, const InnerTable
\* &operator[](Feature f) const
TableGet ==
    /\ \E key \in TableKeys(itable.k) :
          last' = [op |-> "const []", key |-> key,
                   ret |-> IF IsBinomial(itable.k)
                           THEN InnerGet(itable.table_, key, NewAveragedWeight,
                                         NewAveragedWeight, TRUE)
                           ELSE OuterGet(itable.table_, key)]
    /\ UNCHANGED itable
    /\ TableFrame

\* Weight &operator[](Feature f), InnerTable &operator[](Feature f)
TableRef ==
    /\ \E key \in TableKeys(itable.k) :
          LET new == IF IsBinomial(itable.k)
                     THEN Put(itable.table_, key,
                              InnerGet(itable.table_, key, NewAveragedWeight, NewAveragedWeight, TRUE))
                     ELSE Put(itable.table_, key,
                              OuterRef(itable.k, itable.table_, key, itable.nlabels_))
          IN  /\ last' = [op |-> "[]", key |-> key, ret |-> new[key]]
              /\ \E o \in OrdersAfter(itable.table_, new) :
                    itable' = [itable EXCEPT !.table_ = new, !.order = o]
    /\ TableFrame

TableNext == TableUpdate \/ TableArgMax \/ TableGet \/ TableRef

SpecTable == TableInit /\ [][TableNext]_vars

\* models with a margin constant c > 0, in training
MarginInit == ModelInit(LargeMargins)

SpecMargin == MarginInit /\ [][Train]_vars

\* Train(evectors, ys) of the models that have a decoder
SequentialModelTrain == SparseFeatures(kind) /\ SequentialTrain

\* every way the clock of an averaging classifier is driven: Train on single
\* examples, Train on sequences, and freezing
ClockNext == Train \/ SequentialModelTrain \/ Average

SpecClock == MInit /\ [][ClockNext]_vars

\* the capacities a caller can ask for, zero features and too few labels
\* among them
AnyDims(k) ==
    IF IsBinomial(k) THEN {<<0, 0>>, <<2, 0>>}
    ELSE {<<0, 3>>, <<2, 1>>, <<2, 2>>, <<2, 3>>, <<3, 3>>}

\* a caller about to construct a Model
ConstructInit ==
    /\ WIdle
    /\ kind \in Kinds
    /\ \E d \in AnyDims(kind) : nfeats = d[1] /\ nlabels = d[2]
    /\ aperceptron_ = <<>>
    /\ perceptron_ = <<>>
    /\ fault = "none"
    /\ stream = <<>>
    /\ last = [op |-> "call new"]

\* Model(nfeats[, nlabels]): aperceptron_(new AveragingPerceptron(...)), whose
\* base constructor asserts on the capacities
Construct ==
    /\ fault = "none"
    /\ last.op = "call new"
    /\ last' = [op |-> "new"]
    /\ IF BaseAsserts(kind, nfeats, nlabels)
       THEN /\ \E c \in Margins :
                  aperceptron_' = <<AveragingPerceptron(kind, nfeats, nlabels, c)>>
            /\ fault' = "none"
       ELSE /\ fault' = "abort"
            /\ UNCHANGED aperceptron_
    /\ UNCHANGED <<kind, nfeats, nlabels, perceptron_, stream, wvars>>

\* a member function is called on an object whose constructor has returned
Constructed == last.op # "call new"

ConstructedTrain == Constructed /\ Train

ConstructedPredict == Constructed /\ ModelPredict

ConstructedAverage == Constructed /\ Average

ConstructNext == Construct \/ ConstructedTrain \/ ConstructedPredict \/ ConstructedAverage

SpecConstruct == ConstructInit /\ [][ConstructNext]_vars

\* GREEN and RED
Green(k) == FirstFeature(k)

Red(k) == CHOOSE f \in Features(k) : f # FirstFeature(k)

\* the three examples of an epoch: {GREEN} -> false, {RED} -> false,
\* {GREEN, RED} -> true
Examples(k) ==
    <<[fb |-> <<Green(k)>>, y |-> FALSE],
      [fb |-> <<Red(k)>>, y |-> FALSE],
      [fb |-> <<Green(k), Red(k)>>, y |-> TRUE]>>

\* a binomial averaging classifier with c = 0, no example seen
EpochInit ==
    /\ WIdle
    /\ kind \in {DenseBinomial, SparseBinomial}
    /\ nfeats = 2
    /\ nlabels = 0
    /\ aperceptron_ = <<BinomialAveragingPerceptron(kind, nfeats, 0)>>
    /\ perceptron_ = <<>>
    /\ fault = "none"
    /\ stream = <<>>
    /\ last = [op |-> "new", errors |-> 0]

\* Train on the next example of the epoch; errors counts the mispredictions
\* of the epoch so far
TrainExample ==
    /\ fault = "none"
    /\ aperceptron_[1].time_ < 3 * MaxEpochs
    /\ LET a == aperceptron_[1]
           e == Examples(kind)[(a.time_ % 3) + 1]
           before == IF a.time_ % 3 = 0 THEN 0 ELSE last.errors
       IN  \E o \in BinomialTrain(a, e.fb, e.y) :
              /\ aperceptron_' = <<o.a>>
              /\ fault' = o.fault
              /\ last' = [op |-> "Train", fb |-> e.fb, y |-> e.y, yhat |-> o.yhat,
                          ret |-> o.ret, errors |-> before + (IF o.ret THEN 0 ELSE 1)]
    /\ UNCHANGED <<kind, nfeats, nlabels, perceptron_, stream, wvars>>

\* const BinomialPerceptron p(&avg), between two epochs: the frozen
\* classifier is made and the averaging one is kept
FreezeCopy ==
    /\ fault = "none"
    /\ aperceptron_[1].time_ > 0
    /\ aperceptron_[1].time_ % 3 = 0
    /\ last.op = "Train"
    /\ last' = [op |-> "Freeze", errors |-> last.errors]
    /\ IF FreezeAsserts(kind, aperceptron_[1])
       THEN perceptron_' = <<FreezeBinomial(kind, aperceptron_[1])>> /\ fault' = "none"
       ELSE fault' = "abort" /\ UNCHANGED perceptron_
    /\ UNCHANGED <<kind, nfeats, nlabels, aperceptron_, stream, wvars>>

EpochNext == TrainExample \/ FreezeCopy

SpecEpochs == EpochInit /\ [][EpochNext]_vars

(***************************************************************************)
(* The Python classes of _perceptronix.pyx: each holds a unique_ptr to a   *)
(* Model (_model) and calls its member functions.                          *)
(***************************************************************************)
PyModels ==
    {"DenseBinomialModel", "SparseBinomialModel", "DenseMultinomialModel",
     "SparseDenseMultinomialModel", "SparseMultinomialModel"}

PySequentialModels ==
    {"SparseBinomialSequentialModel", "SparseDenseMultinomialSequentialModel",
     "SparseMultinomialSequentialModel"}

PyClasses == PyModels \cup PySequentialModels

\* the classifier templates behind the class
PyKind(c) ==
    CASE c = "DenseBinomialModel" -> DenseBinomial
      [] c \in {"SparseBinomialModel", "SparseBinomialSequentialModel"} -> SparseBinomial
      [] c = "DenseMultinomialModel" -> DenseMultinomial
      [] c \in {"SparseDenseMultinomialModel", "SparseDenseMultinomialSequentialModel"}
           -> SparseDenseMultinomial
      [] OTHER -> SparseMultinomial

\* __init__: self._model = make_unique[cc.Model](nfeats[, nlabels][, order], c)
PyInit ==
    /\ aw = NewAveragedWeight /\ wclock = 0 /\ whist = <<>> /\ wavg = Null
    /\ itable = <<>>
    /\ pyclass \in PyClasses
    /\ kind = PyKind(pyclass)
    /\ \E d \in Dims(kind) : nfeats = d[1] /\ nlabels = d[2]
    /\ \E c \in Margins : aperceptron_ = <<AveragingPerceptron(kind, nfeats, nlabels, c)>>
    /\ perceptron_ = <<>>
    /\ fault = "none"
    /\ stream = <<>>
    /\ last = [op |-> "new"]

\* raise PerceptronixOpError(...): the call ends, the model is as it was
PyRaise(op, how) ==
    /\ last' = [op |-> op, raised |-> how]
    /\ UNCHANGED <<kind, nfeats, nlabels, aperceptron_, perceptron_, fault, stream, wvars>>

\* train(self, feats, label), train(self, efeats, labels):
\* if Averaged(): raise; return self._model.get().Train(...)
PyTrain ==
    /\ fault = "none"
    /\ \/ Averaged /\ PyRaise("train", "PerceptronixOpError")
       \/ ~Averaged /\ pyclass \in PyModels /\ Train
       \/ ~Averaged /\ pyclass \in PySequentialModels /\ SequentialTrain

\* the averaged property: return self._model.get().Averaged()
PyAveraged ==
    /\ fault = "none"
    /\ last' = [op |-> "averaged", ret |-> Averaged]
    /\ UNCHANGED <<kind, nfeats, nlabels, aperceptron_, perceptron_, fault, stream, wvars>>

\* average(self).  Six classes: if Averaged(): raise; _model.get().Average().
\* SparseMultinomialModel: the last line is _model.get().Averaged().
\* SparseDenseMultinomialSequentialModel: no test before Average().
\* SparseMultinomialSequentialModel: declared without `except *`, so the
\* exception is passed on or printed and dropped, as Cython decides.
PyAverage ==
    /\ fault = "none"
    /\ \/ /\ Averaged
          /\ pyclass \notin {"SparseDenseMultinomialSequentialModel",
                              "SparseMultinomialSequentialModel"}
          /\ PyRaise("average", "PerceptronixOpError")
       \/ /\ Averaged
          /\ pyclass = "SparseMultinomialSequentialModel"
          /\ \E how \in {"PerceptronixOpError", "ignored"} : PyRaise("average", how)
       \/ /\ ~Averaged
          /\ pyclass = "SparseMultinomialModel"
          /\ PyRaise("average", "")
       \/ /\ ~Averaged \/ pyclass = "SparseDenseMultinomialSequentialModel"
          /\ pyclass # "SparseMultinomialModel"
          /\ Average

PyNext == PyTrain \/ PyAveraged \/ PyAverage

SpecPython == PyInit /\ [][PyNext]_vars

\* a sequential model in training: Train on sequences, then Average
TrainerNext == SequentialTrain \/ Average

SpecTrainer == SeqInit /\ [][TrainerNext]_vars

(***************************************************************************)
(* What the claims speak of: the weight a classifier holds for a feature   *)
(* (and a label), an entry a table does not hold reading as zero.          *)
(***************************************************************************)
\* how often f occurs in the bundle
Count(fb, f) == Cardinality({i \in 1..Len(fb) : fb[i] = f})

\* the averaging weight of feature f in a binomial table
AWeight(table, f) == IF f \in DOMAIN table THEN table[f] ELSE NewAveragedWeight

\* the averaging weight of (f, l) in a multinomial table
AWeight2(table, f, l) ==
    IF f \in DOMAIN table THEN AWeight(table[f], l) ELSE NewAveragedWeight

\* the frozen weight of feature f in a binomial table
FWeight(table, f) == IF f \in DOMAIN table THEN table[f] ELSE FZero

\* the frozen weight of (f, l) in a multinomial table
FWeight2(table, f, l) == IF f \in DOMAIN table THEN FWeight(table[f], l) ELSE FZero

\* bias + sum of table[f] for f in fb, on current values
RECURSIVE ScoreOf(_, _, _)
ScoreOf(bias, table, fb) ==
    IF fb = <<>> THEN bias.weight_
    ELSE AWeight(table, Head(fb)).weight_ + ScoreOf(bias, table, Tail(fb))

\* bias[l] + sum of table[f][l] for f in fb, on current values
RECURSIVE ScoreOf2(_, _, _, _)
ScoreOf2(bias, table, fb, l) ==
    IF fb = <<>> THEN AWeight(bias, l).weight_
    ELSE AWeight2(table, Head(fb), l).weight_ + ScoreOf2(bias, table, Tail(fb), l)

\* a classifier of plain weights holding the averages of the averaging
\* classifier a at its time
Averages(k, a) ==
    IF IsBinomial(k)
    THEN [bias_ |-> GetAverage(a.bias_, a.time_), table_ |-> AverageTable(a.table_, a.time_)]
    ELSE [bias_ |-> AverageTable(a.bias_, a.time_),
          table_ |-> [f \in DOMAIN a.table_ |-> AverageTable(a.table_[f], a.time_)],
          nlabels_ |-> a.nlabels_]

(***************************************************************************)
(* C2                                                                      *)
(***************************************************************************)
\* C2: when Average() freezes an averaging classifier whose time is T, the
\* bias and the weight of every feature (and label) of the frozen classifier
\* are GetAverage(T) of the averaging weights, an omitted entry reading as 0,
\* and for every bundle the frozen Predict is the prediction made from the
\* averaged weights; for every kind of classifier.
C2_FreezeIsAverage ==
    [][(~Averaged /\ fault = "none" /\ last'.op = "Average" /\ fault' # "abort") =>
          /\ fault' = "none"
          /\ LET a == aperceptron_[1]
                 p == perceptron_'[1]
                 T == a.time_
             IN  /\ IF IsBinomial(kind)
                    THEN /\ p.bias_ = GetAverage(a.bias_, T)
                         /\ \A f \in Features(kind) :
                               FWeight(p.table_, f) = GetAverage(AWeight(a.table_, f), T)
                    ELSE /\ \A l \in Labels(kind) :
                               FWeight(p.bias_, l) = GetAverage(AWeight(a.bias_, l), T)
                         /\ \A f \in Features(kind), l \in Labels(kind) :
                               FWeight2(p.table_, f, l) = GetAverage(AWeight2(a.table_, f, l), T)
                 /\ \A fb \in Bundles(kind) :
                       Predict(kind, FALSE, p, fb) = Predict(kind, FALSE, Averages(kind, a), fb)]_vars

(***************************************************************************)
(* C3                                                                      *)
(***************************************************************************)
\* C3: binomial Train(fb, y) with c = 0.  With yhat = (bias + sum of
\* table[f] for f in fb) > 0 on the weights before the call: if yhat # y the
\* bias changes by +1 (y true) or -1 (y false) and so does table[f] for every
\* occurrence of f in fb; if yhat = y no weight changes; in both cases the
\* time advances by exactly 1 and the call returns yhat = y.
C3_BinomialTrain ==
    [][(IsBinomial(kind) /\ ~Averaged /\ fault = "none" /\ last'.op = "Train"
        /\ aperceptron_[1].c_ = 0) =>
          /\ fault' = "none"
          /\ LET a == aperceptron_[1]
                 b == aperceptron_'[1]
                 fb == last'.fb
                 y == last'.y
                 yhat == ScoreOf(a.bias_, a.table_, fb) > 0
                 step == IF yhat = y THEN 0 ELSE IF y THEN 1 ELSE -1
             IN  /\ b.bias_.weight_ = a.bias_.weight_ + step
                 /\ \A f \in Features(kind) :
                       AWeight(b.table_, f).weight_
                          = AWeight(a.table_, f).weight_ + Count(fb, f) * step
                 /\ b.time_ = a.time_ + 1
                 /\ last'.ret = (yhat = y)
                 /\ last'.yhat = yhat]_vars

\* C3 witness: a binomial Train with c = 0 that mispredicted a bundle of two
\* features on weights that earlier calls had already changed
C3_Witness ==
    /\ IsBinomial(kind)
    /\ ~Averaged
    /\ fault = "none"
    /\ last.op = "Train"
    /\ aperceptron_[1].c_ = 0
    /\ aperceptron_[1].time_ = 3
    /\ Len(last.fb) = 2
    /\ last.ret = FALSE
    /\ last.y = FALSE

(***************************************************************************)
(* C4                                                                      *)
(***************************************************************************)
\* the labels a score vector is taken over: those of the examples, and the
\* ones a sparse table holds
ScoredLabels(k, a, fb) ==
    IF SparseLabels(k)
    THEN DOMAIN a.bias_ \cup UNION {DOMAIN OuterGet(a.table_, fb[i]) : i \in 1..Len(fb)}
    ELSE Labels(k)

\* the labels ArgMax may return for the scores of bundle fb: of a dense score
\* vector the first maximal one, of a sparse one a maximal one (the reserved
\* label when it is empty)
ArgMaxOf(k, a, fb) ==
    LET ls == ScoredLabels(k, a, fb)
        top == {l \in ls : \A m \in ls : ScoreOf2(a.bias_, a.table_, fb, m)
                                          <= ScoreOf2(a.bias_, a.table_, fb, l)}
    IN  IF ls = {} THEN {EmptyLabel}
        ELSE IF SparseLabels(k) THEN top
        ELSE {l \in top : \A m \in top : l <= m}

\* C4: multinomial Train(fb, y) with c = 0.  With yhat the ArgMax of bias +
\* sum of table[f] for f in fb on the weights before the call: if yhat # y,
\* bias[y] and table[f][y] grow by 1 and bias[yhat] and table[f][yhat] shrink
\* by 1 for every occurrence of f in fb; if yhat = y no weight changes; in
\* both cases the time advances by exactly 1 and the call returns yhat = y.
C4_MultinomialTrain ==
    [][(~IsBinomial(kind) /\ ~Averaged /\ fault = "none" /\ last'.op = "Train"
        /\ aperceptron_[1].c_ = 0) =>
          /\ fault' = "none"
          /\ LET a == aperceptron_[1]
                 b == aperceptron_'[1]
                 fb == last'.fb
                 y == last'.y
                 yhat == last'.yhat
                 Step(l) == IF yhat = y THEN 0
                            ELSE IF l = y THEN 1 ELSE IF l = yhat THEN -1 ELSE 0
             IN  /\ yhat \in ArgMaxOf(kind, a, fb)
                 /\ \A l \in Labels(kind) \cup {yhat} :
                       /\ AWeight(b.bias_, l).weight_ = AWeight(a.bias_, l).weight_ + Step(l)
                       /\ \A f \in Features(kind) :
                             AWeight2(b.table_, f, l).weight_
                                = AWeight2(a.table_, f, l).weight_ + Count(fb, f) * Step(l)
                 /\ b.time_ = a.time_ + 1
                 /\ last'.ret = (yhat = y)]_vars

(***************************************************************************)
(* C5                                                                      *)
(***************************************************************************)
\* C5: a Model is in training form from construction until Average() is
\* called (Read makes another Model); when Average() returns, Averaged() is
\* true; it stays true under every later operation; and an averaged Model
\* answers Predict with the frozen classifier.
C5_OneWayLifecycle ==
    /\ ~Averaged
    /\ [][/\ (~Averaged /\ last'.op \notin {"Average", "Read"}) => ~Averaged'
          /\ (last'.op = "Average" /\ fault' = "none") => Averaged'
          /\ Averaged => Averaged'
          /\ (Averaged /\ last'.op = "Predict" /\ fault' = "none") =>
                last'.ret \in Predict(kind, FALSE, perceptron_[1], last'.fb)]_vars

\* C5 witness: an averaged Model, frozen by Average() after training (its
\* bias is a proper fraction), has answered a Predict call with true
C5_Witness ==
    /\ Averaged
    /\ fault = "none"
    /\ perceptron_ # <<>>
    /\ last.op = "Predict"
    /\ IsBinomial(kind)
    /\ perceptron_[1].bias_[2] > 1
    /\ last.ret = TRUE
    /\ Len(last.fb) = 2
    /\ stream = <<>>

(***************************************************************************)
(* C6                                                                      *)
(***************************************************************************)
\* C6: Train on an averaged Model comes back to the caller as an error the
\* caller can recover from: the process goes on, and the Model holds the
\* same weights and is in the same lifecycle state as before the call.
C6_TrainOnAveragedRecoverable ==
    [][(Averaged /\ fault = "none" /\ last'.op = "Train") =>
          /\ fault' = "none"
          /\ perceptron_' = perceptron_
          /\ Averaged']_vars

(***************************************************************************)
(* C7                                                                      *)
(***************************************************************************)
\* C7: Write on a Model that has not been averaged returns failure, writes
\* nothing, and leaves the Model as it was, still trainable.
C7_WriteBeforeAverageFails ==
    [][(~Averaged /\ fault = "none" /\ last'.op = "Write") =>
          /\ fault' = "none"
          /\ last'.ret = FALSE
          /\ stream' = stream
          /\ aperceptron_' = aperceptron_
          /\ ~Averaged']_vars

(***************************************************************************)
(* C8                                                                      *)
(***************************************************************************)
\* C8: Read on input that does not parse (malformed, truncated, of another
\* schema) returns null: the classifier Read does, and so does the Model
\* Read built on it, which never returns a Model that wraps no classifier.
C8_ReadFailsCleanly ==
    [][(fault = "none" /\ last'.op = "Read" /\ ~ParseFromIstream(kind, last'.istrm)) =>
          /\ fault' = "none"
          /\ last'.classifier = "nullptr"
          /\ last'.ret = "nullptr"
          /\ ~(last'.ret = "Model" /\ perceptron_' = <<>>)]_vars

(***************************************************************************)
(* C9                                                                      *)
(***************************************************************************)
\* C9: Read of what Write wrote for a frozen model succeeds and gives a
\* model with the same bias, the same weight for every feature (and label)
\* and the same Predict for every bundle; all-zero models and never trained
\* features included.
C9_ReadWriteRoundTrip ==
    [][(Averaged /\ perceptron_ # <<>> /\ fault = "none" /\ last'.op = "Read"
        /\ last'.istrm = <<WriteMessage(kind, perceptron_[1])>>) =>
          /\ fault' = "none"
          /\ perceptron_' # <<>>
          /\ LET p == perceptron_[1]
                 q == perceptron_'[1]
             IN  /\ IF IsBinomial(kind)
                    THEN /\ q.bias_ = p.bias_
                         /\ \A f \in Features(kind) :
                               FWeight(q.table_, f) = FWeight(p.table_, f)
                    ELSE /\ \A l \in Labels(kind) :
                               FWeight(q.bias_, l) = FWeight(p.bias_, l)
                         /\ \A f \in Features(kind), l \in Labels(kind) :
                               FWeight2(q.table_, f, l) = FWeight2(p.table_, f, l)
                 /\ \A fb \in Bundles(kind) :
                       Predict(kind, FALSE, q, fb) = Predict(kind, FALSE, p, fb)]_vars

(***************************************************************************)
(* C10                                                                     *)
(***************************************************************************)
\* C10: decoder Predict on n emission vectors leaves exactly n labels in the
\* output, whatever the output held before (none for n = 0), and label i is
\* the classifier's Predict on the transition features of the labels
\* predicted before position i followed by emission vector i.
C10_DecoderPredict ==
    [][(fault = "none" /\ last'.op = "DecoderPredict" /\ fault' = "none") =>
          LET avg == ~Averaged
              held == IF avg THEN aperceptron_ ELSE perceptron_
              evectors == last'.evectors
              yhats == last'.yhats
          IN  /\ Len(yhats) = Len(evectors)
              /\ \A i \in 1..Len(evectors) :
                    yhats[i] \in Predict(kind, avg, held[1],
                                         SparseTransitionFunctor(kind, last'.order,
                                                                 SubSeq(yhats, 1, i - 1))
                                         \o evectors[i])]_vars

\* C10 witness: a decoder of order 2 has labelled three tokens into an
\* output vector that held labels of an earlier call, and gave the first two
\* tokens, whose emission vectors are the same, different labels
C10_Witness ==
    /\ fault = "none"
    /\ last.op = "DecoderPredict"
    /\ last.dirty
    /\ last.order = 2
    /\ Len(last.evectors) = 3
    /\ Len(last.yhats) = 3
    /\ last.evectors[1] = last.evectors[2]
    /\ last.yhats[1] # last.yhats[2]

(***************************************************************************)
(* C11                                                                     *)
(***************************************************************************)
\* by how much Update(fb, y, yhat) moves the weight of label l (binomial: the
\* one weight of a feature)
Tau(k, y, yhat, l) ==
    IF IsBinomial(k) THEN (IF y THEN 1 ELSE -1)
    ELSE (IF l = y THEN 1 ELSE 0) - (IF l = yhat THEN 1 ELSE 0)

\* whether Update(fb, y, yhat) touches the weight of label l
Touches(k, y, yhat, l) == IsBinomial(k) \/ l \in {y, yhat}

\* the mispredicted positions
Mismatched(ys, yhats) == {i \in 1..Len(ys) : ys[i] # yhats[i]}

\* the sum over the mispredicted positions from i on of mult(i) * Tau, where
\* mult is 1 for the bias and the count of f in cvector i for a table weight
RECURSIVE Moved(_, _, _, _, _, _, _, _)
Moved(k, cvectors, ys, yhats, bias, f, l, i) ==
    IF i > Len(ys) THEN 0
    ELSE (IF ys[i] = yhats[i] THEN 0
          ELSE (IF bias THEN 1 ELSE Count(cvectors[i], f)) * Tau(k, ys[i], yhats[i], l))
         + Moved(k, cvectors, ys, yhats, bias, f, l, i + 1)

\* the weight w after the updates of one decoder Train, all made at time T:
\* untouched it is as it was; touched it was freshened to T and moved
AfterUpdatesAt(w, touched, moved, T) ==
    IF ~touched THEN w
    ELSE [weight_ |-> w.weight_ + moved,
          summed_weight_ |-> w.summed_weight_ + (T - w.time_) * w.weight_,
          time_ |-> T]

\* C11: decoder Train on a sequence of n tokens returns the number of
\* positions whose predicted label is the true one (between 0 and n); every
\* mispredicted position gets the classifier's Update, all of them at the
\* time the classifier had on entry; and the classifier's time on return is
\* its time on entry plus n, mispredictions or not.
C11_DecoderTrain ==
    [][(~Averaged /\ fault = "none" /\ last'.op = "DecoderTrain" /\ fault' = "none") =>
          LET a == aperceptron_[1]
              b == aperceptron_'[1]
              ys == last'.ys
              yhats == last'.yhats
              n == Len(last'.evectors)
              cvectors == Cvectors(kind, last'.order, last'.evectors, yhats)
              wrong == Mismatched(ys, yhats)
              fs == DOMAIN a.table_ \cup DOMAIN b.table_
                    \cup UNION {{cvectors[i][j] : j \in 1..Len(cvectors[i])} : i \in 1..n}
              ls == IF IsBinomial(kind) THEN {TRUE}
                    ELSE Labels(kind) \cup {yhats[i] : i \in 1..n}
          IN  /\ Len(yhats) = n
              /\ yhats \in DecoderPredict(kind, TRUE, a, last'.order, last'.evectors, <<>>)
              /\ last'.ret = n - Cardinality(wrong)
              /\ last'.ret \in 0..n
              /\ b.time_ = a.time_ + n
              /\ IF IsBinomial(kind)
                 THEN /\ b.bias_ = AfterUpdatesAt(a.bias_, wrong # {},
                                      Moved(kind, cvectors, ys, yhats, TRUE, "", TRUE, 1), a.time_)
                      /\ \A f \in fs :
                            AWeight(b.table_, f)
                              = AfterUpdatesAt(AWeight(a.table_, f),
                                    \E i \in wrong : Count(cvectors[i], f) > 0,
                                    Moved(kind, cvectors, ys, yhats, FALSE, f, TRUE, 1), a.time_)
                 ELSE \A l \in ls :
                      /\ AWeight(b.bias_, l)
                           = AfterUpdatesAt(AWeight(a.bias_, l),
                                 \E i \in wrong : Touches(kind, ys[i], yhats[i], l),
                                 Moved(kind, cvectors, ys, yhats, TRUE, "", l, 1), a.time_)
                      /\ \A f \in fs :
                            AWeight2(b.table_, f, l)
                              = AfterUpdatesAt(AWeight2(a.table_, f, l),
                                    \E i \in wrong : /\ Count(cvectors[i], f) > 0
                                                     /\ Touches(kind, ys[i], yhats[i], l),
                                    Moved(kind, cvectors, ys, yhats, FALSE, f, l, 1), a.time_)]_vars

\* C11 witness: a decoder Train of two tokens, entered at time 1 with a
\* transition functor of order 1 or more, mispredicted both positions
C11_Witness ==
    /\ ~Averaged
    /\ fault = "none"
    /\ last.op = "DecoderTrain"
    /\ Len(last.ys) = 2
    /\ last.order >= 1
    /\ last.ret = 0
    /\ aperceptron_[1].time_ = 3

(***************************************************************************)
(* C12                                                                     *)
(***************************************************************************)
\* the last j labels of a history (all of them when it is shorter)
LastLabels(labels, j) == SubSeq(labels, Len(labels) - Min(j, Len(labels)) + 1, Len(labels))

\* the label histories of at most MaxHistory labels
Histories(k) == UNION {LabelVectors(k, n) : n \in 0..MaxHistory}

\* C12: the transition functor of order k applied to a history of m labels
\* returns min(k, m) features (none for m = 0 or k = 0); feature 1 is made
\* of the last label and feature j extends feature j - 1 by the j-th label
\* from the end, so that two histories get the same feature j exactly when
\* their last j labels are the same; and histories with the same last k
\* labels get the same result.
C12_TransitionFunctor ==
    last.op = "operator()" =>
        LET labels == last.labels
            m == Len(labels)
            order == last.order
            tvector == last.tvector
        IN  /\ Len(tvector) = Min(order, m)
            /\ (m = 0 \/ order = 0) => tvector = <<>>
            /\ Len(tvector) >= 1 => tvector[1] = "t_i-1=" \o LabelString(kind, labels[m])
            /\ \A j \in 2..Len(tvector) :
                  tvector[j] = tvector[j - 1] \o "^t_i-" \o ToString(j) \o "="
                               \o LabelString(kind, labels[m - j + 1])
            /\ \A other \in Histories(kind) :
                  LET tother == SparseTransitionFunctor(kind, order, other)
                  IN  /\ \A j \in 1..Min(Len(tvector), Len(tother)) :
                            (tvector[j] = tother[j])
                               <=> (LastLabels(labels, j) = LastLabels(other, j))
                      /\ LastLabels(other, order) = LastLabels(labels, order)
                            => tother = tvector

\* C12 witness: a functor of order 2 applied to a history of three labels,
\* the oldest of which differs from the two last ones
C12_Witness ==
    /\ last.op = "operator()"
    /\ last.order = 2
    /\ Len(last.labels) = 3
    /\ last.labels[1] # last.labels[2]
    /\ last.labels[2] = last.labels[3]
    /\ Len(last.tvector) = 2

(***************************************************************************)
(* C13                                                                     *)
(***************************************************************************)
\* C13: ArgMax returns a label no other label's weight exceeds; of several
\* labels with the maximal weight it returns the one iteration meets first
\* (in a dense inner table the smallest index, so label 0 when all weights
\* are zero); and a second call on the unchanged table returns the same
\* label.  (Of a sparse table without entries it returns the reserved label.)
C13_ArgMaxFirstMaximal ==
    last.op = "ArgMax" =>
        LET inner == ValTable(TRUE, itable.table_)
            ret == last.ret
            order == IF SparseFeatures(itable.k) THEN itable.order
                     ELSE [i \in 1..Size(inner) |-> i - 1]
        IN  /\ last.again = ret
            /\ Len(order) = Size(inner)
            /\ IF DOMAIN inner = {} THEN ret = EmptyLabel
               ELSE /\ ret \in DOMAIN inner
                    /\ \A m \in DOMAIN inner : ~FLess(inner[ret], inner[m])
                    /\ \E i \in 1..Len(order) :
                          /\ order[i] = ret
                          /\ \A j \in 1..(i - 1) : FLess(inner[order[j]], inner[ret])
            /\ (~SparseFeatures(itable.k) /\ \A m \in DOMAIN inner : inner[m] = FZero)
                  => ret = 0
            /\ ret \in ArgMaxSet(IF SparseFeatures(itable.k) THEN SparseMultinomial
                                 ELSE DenseMultinomial, inner)

\* C13 witness: ArgMax of a sparse inner table of three entries, two of them
\* maximal, returned the one iteration meets first, which is not the first
\* entry of the table
C13_Witness ==
    /\ last.op = "ArgMax"
    /\ itable.k = SparseBinomial
    /\ Len(itable.order) = 3
    /\ last.ret = itable.order[2]
    /\ itable.table_[itable.order[2]].weight_ = itable.table_[itable.order[3]].weight_
    /\ itable.table_[itable.order[1]].weight_ < itable.table_[itable.order[2]].weight_

(***************************************************************************)
(* C14                                                                     *)
(***************************************************************************)
\* the zero a sparse table gives for a key it does not hold: a zero weight of
\* an inner table, the default inner table (without entries) of an outer one
DefaultEntry(k) == IF IsBinomial(k) THEN NewAveragedWeight ELSE EmptyTable

\* the zero entry the mutable accessor makes: a zero weight, an inner table
\* of InnerSize() zero weights, a sparse inner table without entries
FreshEntry(k, nl) ==
    IF IsBinomial(k) THEN NewAveragedWeight
    ELSE IF SparseLabels(k) THEN EmptyTable
    ELSE [l \in 0..(nl - 1) |-> NewAveragedWeight]

\* C14: the read-only accessor of a sparse table, given a key the table does
\* not hold, returns a zero weight and leaves size and contents of the table
\* as they are; the mutable accessor, given such a key, makes the table one
\* entry larger, and the new entry is zero.
C14_SparseAccessors ==
    [][(SparseFeatures(itable.k) /\ last'.op \in {"const []", "[]"}
        /\ last'.key \notin DOMAIN itable.table_) =>
          IF last'.op = "const []"
          THEN /\ last'.ret = DefaultEntry(itable.k)
               /\ itable' = itable
          ELSE /\ Size(itable'.table_) = Size(itable.table_) + 1
               /\ DOMAIN itable'.table_ = DOMAIN itable.table_ \cup {last'.key}
               /\ \A f \in DOMAIN itable.table_ : itable'.table_[f] = itable.table_[f]
               /\ itable'.table_[last'.key] = FreshEntry(itable.k, itable.nlabels_)
               /\ last'.ret = itable'.table_[last'.key]]_vars

\* C14 witness: a sparse outer table that holds one feature was read at
\* another feature through the read-only accessor and still holds one
C14_Witness ==
    /\ itable # <<>>
    /\ itable.k = SparseDenseMultinomial
    /\ last.op = "const []"
    /\ Size(itable.table_) = 1
    /\ last.key \notin DOMAIN itable.table_
    /\ \E f \in DOMAIN itable.table_ : itable.table_[f][0].weight_ # 0

(***************************************************************************)
(* C15                                                                     *)
(***************************************************************************)
\* C15: binomial Train with c > 0 on a correctly predicted example with a
\* non-empty bundle makes the update exactly when |score| / len(bundle) < c
\* as exact numbers (|score| < c * len(bundle)), and no update otherwise.
C15_BinomialMargin ==
    [][(IsBinomial(kind) /\ ~Averaged /\ fault = "none" /\ last'.op = "Train"
        /\ aperceptron_[1].c_ > 0 /\ Len(last'.fb) > 0
        /\ last'.y = (ScoreOf(aperceptron_[1].bias_, aperceptron_[1].table_, last'.fb) > 0)) =>
          LET a == aperceptron_[1]
              b == aperceptron_'[1]
              fb == last'.fb
              score == ScoreOf(a.bias_, a.table_, fb)
              step == IF last'.y THEN 1 ELSE -1
          IN  /\ fault' = "none"
              /\ last'.ret = TRUE
              /\ b.time_ = a.time_ + 1
              /\ IF Abs(score) < a.c_ * Len(fb)
                 THEN /\ b.bias_.weight_ = a.bias_.weight_ + step
                      /\ b.bias_.time_ = a.time_
                      /\ \A f \in Features(kind) :
                            AWeight(b.table_, f).weight_
                               = AWeight(a.table_, f).weight_ + Count(fb, f) * step
                 ELSE b.bias_ = a.bias_ /\ b.table_ = a.table_]_vars

\* C15 witness: with c = 1 a bundle of two features scored 1 and was rightly
\* predicted true; |score| / len is 1/2, which is below c, and the update
\* was made (bias and both features grew, the score is now 4)
C15_Witness ==
    /\ IsBinomial(kind)
    /\ ~Averaged
    /\ fault = "none"
    /\ last.op = "Train"
    /\ aperceptron_[1].c_ = 1
    /\ Len(last.fb) = 2
    /\ last.y = TRUE
    /\ last.ret = TRUE
    /\ aperceptron_[1].bias_.time_ = aperceptron_[1].time_ - 1
    /\ ScoreOf(aperceptron_[1].bias_, aperceptron_[1].table_, last.fb) = 4

(***************************************************************************)
(* C16                                                                     *)
(***************************************************************************)
\* C16: multinomial Train with c > 0 on a correctly predicted example makes
\* an update exactly when (score[predicted] - score[true]) / len(bundle) < c,
\* and none otherwise (the bundle not empty).
C16_MultinomialMargin ==
    [][(~IsBinomial(kind) /\ ~Averaged /\ fault = "none" /\ last'.op = "Train"
        /\ aperceptron_[1].c_ > 0 /\ Len(last'.fb) > 0 /\ last'.yhat = last'.y) =>
          LET a == aperceptron_[1]
              fb == last'.fb
              y == last'.y
              margin == ScoreOf2(a.bias_, a.table_, fb, last'.yhat)
                        - ScoreOf2(a.bias_, a.table_, fb, y)
          IN  /\ fault' = "none"
              /\ last'.ret = TRUE
              /\ aperceptron_'[1]
                   = IF margin < a.c_ * Len(fb)
                     THEN Tick(MultinomialUpdate(kind, a, fb, y, last'.yhat), 1)
                     ELSE Tick(a, 1)]_vars

(***************************************************************************)
(* C17                                                                     *)
(***************************************************************************)
\* C17: GetAverage(0) returns 0: whenever the average of a weight has just
\* been taken at time 0, the value returned is zero.
C17_GetAverageAtZero == (wavg # Null /\ wclock = 0) => wavg = FZero

(***************************************************************************)
(* C18                                                                     *)
(***************************************************************************)
\* the timestamps of all the weights of an averaging classifier
Timestamps(k, a) ==
    IF IsBinomial(k)
    THEN {a.bias_.time_} \cup {a.table_[f].time_ : f \in DOMAIN a.table_}
    ELSE {a.bias_[l].time_ : l \in DOMAIN a.bias_}
         \cup UNION {{a.table_[f][l].time_ : l \in DOMAIN a.table_[f]} :
                       f \in DOMAIN a.table_}

\* C18: the time counter of an averaging classifier never decreases, and the
\* timestamp of every weight (bias and table entries) is at most the time
\* counter, so every Freshen(time_) is given a time not before the weight's.
C18_TimeMonotone ==
    /\ [](~Averaged => \A t \in Timestamps(kind, aperceptron_[1]) :
                          t <= aperceptron_[1].time_)
    /\ [][(~Averaged /\ ~Averaged') => aperceptron_'[1].time_ >= aperceptron_[1].time_]_vars

\* C18 witness: a sequence has just been trained on after the clock had
\* advanced; a weight was freshened at the time of the call and the clock
\* has moved on, another weight still carries an older timestamp
C18_Witness ==
    /\ ~Averaged
    /\ fault = "none"
    /\ last.op = "DecoderTrain"
    /\ "ys" \in DOMAIN last
    /\ aperceptron_[1].time_ = MaxDecoderTime
    /\ \E t \in Timestamps(kind, aperceptron_[1]) : 0 < t /\ t < aperceptron_[1].time_
    /\ \E t \in Timestamps(kind, aperceptron_[1]) : t = 0

(***************************************************************************)
(* C19                                                                     *)
(***************************************************************************)
\* the classifiers a model holds: the averaging one, the frozen one, or none
Held == {aperceptron_[i] : i \in DOMAIN aperceptron_}
        \cup {perceptron_[i] : i \in DOMAIN perceptron_}

\* C19: a dense multinomial classifier made with (nfeats, nlabels), and the
\* classifier frozen from it, has one inner table for each feature below
\* nfeats, and each inner table, like the bias, has exactly nlabels weights.
C19_DenseTableShape ==
    (kind = DenseMultinomial /\ fault = "none" /\ last.op \in {"new", "Train", "Average"}) =>
        \A p \in Held :
           /\ Size(p.table_) = nfeats
           /\ DOMAIN p.table_ = 0..(nfeats - 1)
           /\ DOMAIN p.bias_ = 0..(nlabels - 1)
           /\ \A f \in DOMAIN p.table_ : DOMAIN p.table_[f] = 0..(nlabels - 1)

(***************************************************************************)
(* C20                                                                     *)
(***************************************************************************)
\* C20: constructing a classifier with zero feature capacity, or a
\* multinomial one with label capacity <= 2, is rejected by the constructor:
\* no classifier results, and nothing runs after the rejection.
C20_ConstructionRejected ==
    /\ [][(last.op = "call new" /\ (nfeats = 0 \/ (~IsBinomial(kind) /\ nlabels <= 2))) =>
             (fault' = "abort" /\ Held' = {})]_vars
    /\ [][fault # "abort"]_vars

\* C20 witness: the construction of a multinomial model with two labels has
\* been rejected
C20_Witness ==
    /\ ~IsBinomial(kind)
    /\ nfeats > 0
    /\ nlabels = 2
    /\ last.op = "new"
    /\ fault = "abort"
    /\ Held = {}

(***************************************************************************)
(* C21                                                                     *)
(***************************************************************************)
\* an epoch has just ended
EpochEnded == last.op = "Train" /\ aperceptron_[1].time_ > 0 /\ aperceptron_[1].time_ % 3 = 0

\* the examples the classifier p labels as the examples say
RightOn(k, avg, p) ==
    {i \in 1..3 : BinomialPredict(avg, p, Examples(k)[i].fb) = Examples(k)[i].y}

\* the weights' current values
CurrentValues(a) ==
    <<a.bias_.weight_, [f \in DOMAIN a.table_ |-> a.table_[f].weight_]>>

\* the first part of C21: the last epoch gone through has no misprediction
EpochsConverge ==
    (EpochEnded /\ aperceptron_[1].time_ = 3 * MaxEpochs) => last.errors = 0

\* the second part of C21: once an epoch has had no misprediction the
\* current values of the weights stay as they are
ConvergedWeightsStay ==
    [][(EpochEnded /\ last.errors = 0 /\ last'.op = "Train")
         => CurrentValues(aperceptron_'[1]) = CurrentValues(aperceptron_[1])]_vars

\* C21: training on the three examples reaches an epoch without a
\* misprediction, and the classifier frozen after the epochs that follow
\* (here: after the last epoch gone through) labels all three examples right.
C21_FrozenClassifiesAll ==
    (last.op = "Freeze" /\ fault = "none" /\ aperceptron_[1].time_ = 3 * MaxEpochs) =>
        /\ last.errors = 0
        /\ RightOn(kind, FALSE, perceptron_[1]) = {1, 2, 3}

PyAverageReturned ==
    /\ fault' = "none"
    /\ \/ last'.op = "Average"
       \/ last'.op = "average" /\ last'.raised = ""

\* C23: an instance of every Python model class is in training form after
\* construction; after average() returns on an instance in training form
\* the model is averaged, and train on an averaged model raises
\* PerceptronixOpError.
C23_PythonLifecycle ==
    /\ [](last.op = "new" => ~Averaged)
    /\ [][(fault = "none" /\ ~Averaged /\ PyAverageReturned) => Averaged']_vars
    /\ [][(fault = "none" /\ Averaged /\ last'.op \in {"train", "Train", "DecoderTrain"}) =>
             (fault' = "none" /\ last'.op = "train"
              /\ last'.raised = "PerceptronixOpError")]_vars

(***************************************************************************)
(* C24                                                                     *)
(***************************************************************************)
\* C24: in decoder Train the label of every position is predicted with the
\* weights the classifier had on entry, from the transition features of the
\* labels predicted (not the true ones) for the earlier positions; the
\* updates come after all the predictions, and the vector given to Update
\* for position i is the vector position i was predicted from.
C24_PredictThenUpdate ==
    [][(~Averaged /\ fault = "none" /\ last'.op = "DecoderTrain" /\ fault' = "none") =>
          LET a == aperceptron_[1]
              ys == last'.ys
              yhats == last'.yhats
              n == Len(last'.evectors)
              used == [i \in 1..n |->
                         SparseTransitionFunctor(kind, last'.order, SubSeq(yhats, 1, i - 1))
                         \o last'.evectors[i]]
          IN  /\ Len(yhats) = n
              /\ \A i \in 1..n : yhats[i] \in Predict(kind, TRUE, a, used[i])
              /\ aperceptron_'[1] = Tick(TrainLoop(kind, a, used, ys, yhats, 1, 0).a, n)]_vars

\* C24 witness: a decoder Train with transition features, entered at time 1,
\* mispredicted the first of two tokens, so that the second was predicted
\* from a label that is not the true one
C24_Witness ==
    /\ ~Averaged
    /\ fault = "none"
    /\ last.op = "DecoderTrain"
    /\ "ys" \in DOMAIN last
    /\ Len(last.ys) = 2
    /\ last.order >= 1
    /\ last.ys[1] # last.yhats[1]
    /\ aperceptron_[1].time_ = 3

(***************************************************************************)
(* C25                                                                     *)
(***************************************************************************)
\* the bundle fb without the features the table has no entry for
Seen(table, fb) == SelectSeq(fb, LAMBDA f : f \in DOMAIN table)

\* C25: for the classifiers with a sparse table over the features, Score and
\* Predict of a bundle are those of the bundle with the features the table
\* has never seen taken out.
C25_AbsentFeaturesAddNothing ==
    (SparseFeatures(kind) /\ fault = "none") =>
        \A p \in Held :
           /\ \A fb \in Bundles(kind) :
                 LET avg == ~Averaged
                     seen == Seen(p.table_, fb)
                 IN  IF IsBinomial(kind)
                     THEN /\ BinomialScore(avg, p, fb) = BinomialScore(avg, p, seen)
                          /\ BinomialPredict(avg, p, fb) = BinomialPredict(avg, p, seen)
                     ELSE /\ MultinomialScore(kind, avg, p, fb, FZero)
                               = MultinomialScore(kind, avg, p, seen, FZero)
                          /\ MultinomialPredict(kind, avg, p, fb)
                               = MultinomialPredict(kind, avg, p, seen)
           /\ (last.op = "Predict" /\ "ret" \in DOMAIN last) =>
                 last.ret \in Predict(kind, ~Averaged, p, Seen(p.table_, last.fb))

\* C25 witness: a sparse classifier in training has answered Predict for a
\* bundle of a feature it has a weight for and a feature it has never seen
C25_Witness ==
    /\ SparseFeatures(kind)
    /\ ~Averaged
    /\ fault = "none"
    /\ last.op = "Predict"
    /\ "ret" \in DOMAIN last
    /\ Len(last.fb) = 2
    /\ last.fb[1] \in DOMAIN aperceptron_[1].table_
    /\ last.fb[2] \notin DOMAIN aperceptron_[1].table_
    /\ aperceptron_[1].time_ > 0

(***************************************************************************)
(* C26                                                                     *)
(***************************************************************************)
\* the sum of the current values of the weights of an inner table
RECURSIVE SumOfValues(_, _)
SumOfValues(inner, ls) ==
    IF ls = {} THEN 0
    ELSE LET l == CHOOSE x \in ls : TRUE
         IN  inner[l].weight_ + SumOfValues(inner, ls \ {l})

\* C26: in every state of a multinomial averaging classifier the current
\* values of the bias weights sum to zero over the labels, and so do, for
\* every feature, the current values of the weights of its inner table.
C26_WeightsSumToZero ==
    (~IsBinomial(kind) /\ ~Averaged /\ fault = "none") =>
        LET a == aperceptron_[1]
        IN  /\ SumOfValues(a.bias_, DOMAIN a.bias_) = 0
            /\ \A f \in DOMAIN a.table_ : SumOfValues(a.table_[f], DOMAIN a.table_[f]) = 0

(***************************************************************************)
(* C27                                                                     *)
(***************************************************************************)
\* the sum the weight w has accumulated by time T
SumAt(w, T) == Freshen(w, T).summed_weight_

\* the weights w (before) and v (after) have the same current value and the
\* same accumulated sum by time T
SameWeight(w, v, T) == v.weight_ = w.weight_ /\ SumAt(v, T) = SumAt(w, T)

C28_SparseAverageCompletes ==
    [][(SparseFeatures(kind) /\ ~Averaged /\ fault = "none" /\ last'.op = "Average")
        => (fault' = "none" /\ Averaged')]_vars

(***************************************************************************)
(* C29                                                                     *)
(***************************************************************************)
\* C29: Train with an empty feature bundle returns, for every margin constant:
\* the prediction is the one the bias alone gives, the table is as it was and
\* the time has advanced by 1.
C29_TrainOnEmptyBundle ==
    [][(~Averaged /\ fault = "none" /\ last'.op = "Train" /\ last'.fb = <<>>) =>
          LET a == aperceptron_[1]
              b == aperceptron_'[1]
          IN  /\ fault' = "none"
              /\ last'.yhat \in Predict(kind, TRUE, a, <<>>)
              /\ b.table_ = a.table_
              /\ b.time_ = a.time_ + 1]_vars

(***************************************************************************)
(* The arithmetic of AveragedWeightTpl<int32_t>::Freshen at the width of   *)
(* its types.  A uint64_t is the sequence of its eight bytes, the least    *)
(* significant first; an int32_t is an integer of -2^31 .. 2^31 - 1.       *)
(***************************************************************************)
\* the largest and the smallest int32_t
MaxInt32 == (2^30 - 1) + 2^30

MinInt32 == (-MaxInt32) - 1

\* the four bytes of x, 0 <= x < 2^31
LowBytes(x) == [i \in 1..4 |-> (x \div 2^(8 * (i - 1))) % 2^8]

\* the conversion of a uint64_t below 2^31 (a time) to its bytes
U64OfTime(t) == LowBytes(t) \o <<0, 0, 0, 0>>

\* the conversion int32_t -> uint64_t of the usual arithmetic conversions:
\* x modulo 2^64, a negative x becoming 2^64 + x
U64OfInt32(x) ==
    IF x >= 0 THEN U64OfTime(x)
    ELSE LET low == LowBytes((x + MaxInt32) + 1)
         IN  <<low[1], low[2], low[3], low[4] + 2^7, 2^8 - 1, 2^8 - 1, 2^8 - 1, 2^8 - 1>>

\* the mutant of Int32OfU64: a conversion that saturates
Int32Saturating(u) ==
    IF u[4] >= 2^7 \/ \E i \in 5..8 : u[i] # 0 THEN MaxInt32
    ELSE u[4] * 2^24 + u[3] * 2^16 + u[2] * 2^8 + u[1]

\* the conversion uint64_t -> int32_t of the assignment: the value modulo
\* 2^32, taken in -2^31 .. 2^31 - 1
Int32OfU64(u) ==
    (IF u[4] >= 2^7 THEN (u[4] - 2^8) * 2^24 ELSE u[4] * 2^24)
    + u[3] * 2^16 + u[2] * 2^8 + u[1]

\* a + b + carry modulo 2^64, from byte k on
RECURSIVE AddFrom(_, _, _, _)
AddFrom(a, b, k, carry) ==
    IF k > 8 THEN <<>>
    ELSE LET s == a[k] + b[k] + carry
         IN  <<s % 2^8>> \o AddFrom(a, b, k + 1, s \div 2^8)

\* uint64_t + uint64_t
Add64(a, b) == AddFrom(a, b, 1, 0)

\* uint64_t - uint64_t
Sub64(a, b) == AddFrom(a, [i \in 1..8 |-> (2^8 - 1) - b[i]], 1, 1)

\* the products of the bytes that meet in byte k of a * b
RECURSIVE ColumnSum(_, _, _, _)
ColumnSum(a, b, k, i) ==
    IF i > k THEN 0 ELSE a[i] * b[k + 1 - i] + ColumnSum(a, b, k, i + 1)

\* a * b modulo 2^64, from byte k on
RECURSIVE MulFrom(_, _, _, _)
MulFrom(a, b, k, carry) ==
    IF k > 8 THEN <<>>
    ELSE LET s == ColumnSum(a, b, k, 1) + carry
         IN  <<s % 2^8>> \o MulFrom(a, b, k + 1, s \div 2^8)

\* uint64_t * uint64_t
Mul64(a, b) == MulFrom(a, b, 1, 0)

\* void Freshen(uint64_t time) of AveragedWeightTpl<int32_t>: elapsed is a
\* uint64_t, Get() and summed_weight_ are converted to uint64_t, the sum is
\* converted back to int32_t
FreshenInt32(w, time) ==
    LET elapsed == Sub64(U64OfTime(time), U64OfTime(w.time_))
        product == Mul64(elapsed, U64OfInt32(w.weight_))
    IN  [w EXCEPT !.summed_weight_ = Int32OfU64(Add64(U64OfInt32(w.summed_weight_), product)),
                  !.time_ = time]

\* the values Update is called with
WideTaus == {-(2^30), -1, 1, 2^30}

\* weight_ + tau is an int32_t
FitsInt32(weight, tau) ==
    IF tau > 0 THEN weight <= MaxInt32 - tau ELSE weight >= MinInt32 - tau

\* void Update(WeightType tau, uint64_t time), with values that int32_t holds
WideUpdate ==
    /\ Len(whist) < MaxUpdates
    /\ \E tau \in WideTaus :
          /\ FitsInt32(aw.weight_, tau)
          /\ aw' = BaseUpdate(FreshenInt32(aw, wclock), tau)
          /\ whist' = Append(whist, <<tau, wclock>>)
    /\ wavg' = Null
    /\ UNCHANGED <<wclock, itable, pyclass, mvars>>

\* void Freshen(uint64_t time)
WideFreshen ==
    /\ aw' = FreshenInt32(aw, wclock)
    /\ wavg' = Null
    /\ UNCHANGED <<wclock, whist, itable, pyclass, mvars>>

WideNext == WideUpdate \/ WTick \/ WideFreshen

\* an averaged weight of 32 bits under Update, Freshen and the passing of time
SpecWide == WInit /\ [][WideNext]_vars

(***************************************************************************)
(* C30.  The exact sum is kept as <<h, l>>, standing for h * 2^16 + l with *)
(* 0 <= l < 2^16.                                                          *)
(***************************************************************************)
Norm(h, l) == <<h + (l \div 2^16), l % 2^16>>

\* the exact value x * elapsed
ExactTimes(x, elapsed) == Norm((x \div 2^16) * elapsed, (x % 2^16) * elapsed)

\* the exact sum of value x elapsed time that the updates of hist have
\* contributed by `time`: an update of tau at time t counts tau * (time - t)
RECURSIVE ExactSum(_, _)
ExactSum(hist, time) ==
    IF hist = <<>> THEN <<0, 0>>
    ELSE LET rest == ExactSum(Tail(hist), time)
             this == ExactTimes(Head(hist)[1], time - Head(hist)[2])
         IN  Norm(rest[1] + this[1], rest[2] + this[2])

\* x lies in the range of int32_t
WithinInt32(x) == -(2^15) <= x[1] /\ x[1] < 2^15

\* C30: whenever the exact sum of value x elapsed time of the updates made so
\* far, taken up to the weight's timestamp, lies in the range of int32_t, the
\* stored sum summed_weight_ is that sum, negative current values included.
C30_SumIsExact ==
    LET exact == ExactSum(whist, aw.time_)
    IN  WithinInt32(exact) => aw.summed_weight_ = exact[1] * 2^16 + exact[2]

\* C30 witness: +2^30 from time 0 and -2^30 from time 2 brought the exact sum
\* to 2^31, out of range; with the value at -1 since time 2 the sum freshened
\* at time 3 is 2^31 - 1
C30_Witness ==
    /\ whist = << <<2^30, 0>>, <<-(2^30), 2>>, <<-1, 2>> >>
    /\ aw.weight_ = -1
    /\ aw.time_ = 3
    /\ aw.summed_weight_ = MaxInt32
    /\ WithinInt32(ExactSum(whist, aw.time_))

====
